---- MODULE Spec2Model ----
(***************************************************************************)
(* State-machine model of tidepool_data_science_models/models/             *)
(* icgm_sensor_generator.py: the iCGMSensor simulation unit (clock,        *)
(* histories, precomputed noise / drift arrays), the process-wide numpy    *)
(* random stream it seeds, and the iCGMSensorGenerator orchestrator.       *)
(*                                                                         *)
(* Numbers.  Sensor values are floats in the source.  Here a value is an   *)
(* exact rational [n |-> numerator, d |-> denominator] (d > 0), and        *)
(* numpy's nan is the record NaN (d = 0).  Timestamps are minutes          *)
(* [min |-> k], or NoneDT for Python's None.                               *)
(*                                                                         *)
(* Arrays.  The 2880-element noise and drift arrays are kept as            *)
(* descriptors (which stream positions they were drawn from, how long they *)
(* are); NoiseAt / DriftAt compute an element, and ArrayIndexOk says       *)
(* whether numpy accepts the index.                                        *)
(***************************************************************************)
EXTENDS Integers, Sequences, FiniteSets, TLC

VARIABLES
    sensors,    \* sensor id -> the iCGMSensor object, or Absent
    rng,        \* numpy's process-wide random stream: [seed, pos]
    gen,        \* the iCGMSensorGenerator object, or NoGen
    ret,        \* the call in progress: operation, arguments, outcome
    pcs,        \* per constructing thread: position inside iCGMSensor.__init__
    script,     \* the calling program: the window it feeds and how far it is
    log         \* sensor id -> the calls made on it and what they returned

vars == <<sensors, rng, gen, ret, pcs, script, log>>

----------------------------------------------------------------------------
(* Program constants *)

\* ticks per day: validate_time_index, "self.sensor_life_days * 288 - 1"
TicksPerDay == 288
\* the arrays are sized "288 * 10" whatever sensor_life_days is
ArrayDays == 10
\* minutes per tick: "delay // 5", "timedelta(minutes=time_index_offset * 5)"
TickMinutes == 5
\* get_loop_inputs clamps to [40, 400]
LoopMin == 40
LoopMax == 400
\* iCGMSensor.__init__ defaults
DefaultLifeDays == 10
DefaultTimeIndex == 0
\* iCGMSensorGenerator.__init__: the delay with and without use_g6_accuracy_in_loss
DelayG6 == 5
DelayDefault == 10
\* np.pi and 2 * np.pi, in millionths
PiMicro == 3141593
TwoPiMicro == 6283185

(* Bounds of the model *)

\* longest trace handed to get_bg_trace / backfill
MaxTrace == 3
\* longest committed history
MaxHist == 2
\* successful update calls per sensor
MaxUpd == 1
\* longest window backfilled in SpecB
MaxWin == 3
\* most sensors asked of generate_sensors
MaxGen == 2
\* calls logged per sensor in SpecR
MaxLog == 2

----------------------------------------------------------------------------
(* Numbers *)

NaN == [n |-> 0, d |-> 0]
IsNaN(x) == x.d = 0
Num(k) == [n |-> k, d |-> 1]

\* float multiplication and addition; nan propagates
Mul(a, b) == IF IsNaN(a) \/ IsNaN(b) THEN NaN ELSE [n |-> a.n * b.n, d |-> a.d * b.d]
Add(a, b) == IF IsNaN(a) \/ IsNaN(b) THEN NaN
             ELSE [n |-> a.n * b.d + b.n * a.d, d |-> a.d * b.d]
Div(a, b) == IF IsNaN(a) \/ IsNaN(b) THEN NaN ELSE [n |-> a.n * b.d, d |-> a.d * b.n]

Max2(a, b) == IF a >= b THEN a ELSE b
Min2(a, b) == IF a <= b THEN a ELSE b

\* Python's round(x) for a finite float: nearest integer, ties to the even one
RoundHalfEven(x) ==
    LET q == x.n \div x.d
        r == x.n - q * x.d
    IN  IF 2 * r < x.d THEN q
        ELSE IF 2 * r > x.d THEN q + 1
        ELSE IF q % 2 = 0 THEN q ELSE q + 1

NoneDT == [none |-> TRUE, min |-> 0]
DT(k) == [none |-> FALSE, min |-> k]
\* isinstance(t, datetime.datetime)
IsDatetime(t) == ~t.none

----------------------------------------------------------------------------
(* numpy's global random stream *)

\* numpy's stream for seeds 0..4: np.random.seed(seed); np.random.normal(0, 1,
\* 2880) (the Mersenne Twister seeded by np.random.seed, read through numpy's
\* legacy polar Gaussian), in millionths.  The 2880 draws of a seed are laid
\* out as 10 days of 24 hours of 12 draws.
NormalHour(seed, day, hour) ==
    CASE seed = 0 ->
       (CASE day = 0 ->
           (CASE hour = 0 -> <<1764052, 400157, 978738, 2240893, 1867558, -977278, 950088, -151357, -103219, 410599, 144044, 1454274>>
              [] hour = 1 -> <<761038, 121675, 443863, 333674, 1494079, -205158, 313068, -854096, -2552990, 653619, 864436, -742165>>
              [] hour = 2 -> <<2269755, -1454366, 45759, -187184, 1532779, 1469359, 154947, 378163, -887786, -1980796, -347912, 156349>>
              [] hour = 3 -> <<1230291, 1202380, -387327, -302303, -1048553, -1420018, -1706270, 1950775, -509652, -438074, -1252795, 777490>>
              [] hour = 4 -> <<-1613898, -212740, -895467, 386902, -510805, -1180632, -28182, 428332, 66517, 302472, -634322, -362741>>
              [] hour = 5 -> <<-672460, -359553, -813146, -1726283, 177426, -401781, -1630198, 462782, -907298, 51945, 729091, 128983>>
              [] hour = 6 -> <<1139401, -1234826, 402342, -684810, -870797, -578850, -311553, 56165, -1165150, 900826, 465662, -1536244>>
              [] hour = 7 -> <<1488252, 1895889, 1178780, -179925, -1070753, 1054452, -403177, 1222445, 208275, 976639, 356366, 706573>>
              [] hour = 8 -> <<10500, 1785870, 126912, 401989, 1883151, -1347759, -1270485, 969397, -1173123, 1943621, -413619, -747455>>
              [] hour = 9 -> <<1922942, 1480515, 1867559, 906045, -861226, 1910065, -268003, 802456, 947252, -155010, 614079, 922207>>
              [] hour = 10 -> <<376426, -1099401, 298238, 1326386, -694568, -149635, -435154, 1849264, 672295, 407462, -769916, 539249>>
              [] hour = 11 -> <<-674333, 31831, -635846, 676433, 576591, -208299, 396007, -1093062, -1491258, 439392, 166673, 635031>>
              [] hour = 12 -> <<2383145, 944479, -912822, 1117016, -1315907, -461585, -68242, 1713343, -744755, -826439, -98453, -663478>>
              [] hour = 13 -> <<1126636, -1079932, -1147469, -437820, -498032, 1929532, 949421, 87551, -1225436, 844363, -1000215, -1544771>>
              [] hour = 14 -> <<1188030, 316943, 920859, 318728, 856831, -651026, -1034243, 681595, -803410, -689550, -455533, 17479>>
              [] hour = 15 -> <<-353994, -1374951, -643618, -2223403, 625231, -1602058, -1104383, 52165, -739563, 1543015, -1292857, 267051>>
              [] hour = 16 -> <<-39283, -1168093, 523277, -171546, 771791, 823504, 2163236, 1336528, -369182, -239379, 1099660, 655264>>
              [] hour = 17 -> <<640132, -1616956, -24326, -738031, 279925, -98150, 910179, 317218, 786328, -466419, -944446, -410050>>
              [] hour = 18 -> <<-17020, 379152, 2259309, -42257, -955945, -345982, -463596, 481481, -1540797, 63262, 156507, 232181>>
              [] hour = 19 -> <<-597316, -237922, -1424061, -493320, -542861, 416050, -1156182, 781198, 1494485, -2069985, 426259, 676908>>
              [] hour = 20 -> <<-637437, -397272, -132881, -297791, -309013, -1676004, 1152332, 1079619, -813364, -1466424, 521065, -575788>>
              [] hour = 21 -> <<141953, -319328, 691539, 694749, -725597, -1383364, -1582938, 610379, -1188859, -506816, -596314, -52567>>
              [] hour = 22 -> <<-1936280, 188779, 523891, 88422, -310886, 97400, 399046, -2772593, 1955912, 390093, -652409, -390953>>
              [] hour = 23 -> <<493742, -116104, -2030684, 2064493, -110541, 1020173, -692050, 1536377, 286344, 608844, -1045253, 1211145>>)
         [] day = 1 ->
           (CASE hour = 0 -> <<689818, 1301846, -628088, -481027, 2303917, -1060016, -135950, 1136891, 97725, 582954, -399449, 370056>>
              [] hour = 1 -> <<-1306527, 1658131, -118164, -680178, 666383, -460720, -1334258, -1346718, 693773, -159573, -133702, 1077744>>
              [] hour = 2 -> <<-1126826, -730678, -384880, 94352, -42171, -286887, -61626, -107305, -719604, -812993, 274516, -890915>>
              [] hour = 3 -> <<-1157355, -312292, -157667, 2256723, -704700, 943261, 747188, -1188945, 773253, -1183881, -2659172, 606320>>
              [] hour = 4 -> <<-1755891, 450934, -684011, 1659551, 1068509, -453386, -687838, -1214077, -440923, -280355, -364694, 156704>>
              [] hour = 5 -> <<578521, 349654, -764144, -1437791, 1364532, -689449, -652294, -521189, -1843070, -477974, -479656, 620358>>
              [] hour = 6 -> <<698457, 3771, 931848, 339965, -15682, 160928, -190653, -394850, -267734, -1128011, 280442, -993124>>
              [] hour = 7 -> <<841631, -249459, 49495, 493837, 643314, -1570623, -206904, 880179, -1698106, 387280, -2255564, -1022507>>
              [] hour = 8 -> <<38631, -1656715, -985511, -1471835, 1648135, 164228, 567290, -222675, -353432, -1616474, -291837, -761492>>
              [] hour = 9 -> <<857924, 1141102, 1466579, 852552, -598654, -1115897, 766663, 356293, -1768538, 355482, 814520, 58926>>
              [] hour = 10 -> <<-185054, -807648, -1446535, 800298, -309114, -233467, 1732721, 684501, 370825, 142062, 1519995, 1719589>>
              [] hour = 11 -> <<929505, 582225, -2094603, 123722, -130107, 93953, 943046, -2739677, -569312, 269904, -466846, -1416906>>
              [] hour = 12 -> <<868963, 276872, -971105, 314817, 821586, 5293, 800565, 78260, -395229, -1159421, -85931, 194293>>
              [] hour = 13 -> <<875833, -115107, 457416, -964612, -782629, -110389, -1054628, 820248, 463130, 279096, 338904, 2021044>>
              [] hour = 14 -> <<-468864, -2201441, 199300, -50604, -517519, -978830, -439190, 181338, -502817, 2412454, -960504, -793117>>
              [] hour = 15 -> <<-2288620, 251484, -2016407, -539455, -275671, -709728, 1738873, 994394, 1319137, -882419, 1128594, 496001>>
              [] hour = 16 -> <<771406, 1029439, -908763, -424318, 862596, -2655619, 1513328, 553132, -45704, 220508, -1029935, -349943>>
              [] hour = 17 -> <<1100284, 1298022, 2696224, -73925, -658553, -514234, -1018042, -77855, 382732, -34242, 1096347, -234216>>
              [] hour = 18 -> <<-347451, -581268, -1632635, -1567768, -1179158, 1301428, 895260, 1374964, -1332212, -1968625, -660056, 175819>>
              [] hour = 19 -> <<498690, 1047972, 284280, 1742669, -222606, -913079, -1681218, -888971, 242118, -888720, 936742, 1412328>>
              [] hour = 20 -> <<-2369587, 864052, -2239604, 401499, 1224871, 64856, -1279689, -585431, -261645, -182245, -202897, -109883>>
              [] hour = 21 -> <<213480, -1208574, -242020, 1518261, -384645, -443836, 1078197, -2559185, 1181379, -631904, 163929, 96321>>
              [] hour = 22 -> <<942468, -267595, -678026, 1297846, -2364174, 20334, -1347925, -761573, 2011257, -44595, 195070, -1781563>>
              [] hour = 23 -> <<-729045, 196557, 354758, 616887, 8628, 527004, 453782, -1829740, 37006, 767902, 589880, -363859>>)
         [] day = 2 ->
           (CASE hour = 0 -> <<-805627, -1118312, -131054, 1133080, -1951804, -659892, -1139802, 784958, -554310, -470638, -216950, 445393>>
              [] hour = 1 -> <<-392389, -3046143, 543312, 439043, -219541, -1084037, 351780, 379236, -470033, -216731, -930157, -178589>>
              [] hour = 2 -> <<-1550429, 417319, -944368, 238103, -1405963, -590058, -110489, -1660700, 115148, -379148, -1742356, -1303243>>
              [] hour = 3 -> <<605120, 895556, -131909, 404762, 223844, 329623, 1285984, -1506998, 676461, -382009, -224259, -302250>>
              [] hour = 4 -> <<-375147, -1226196, 183339, 1670943, -56133, -1385, -687299, -117475, 466166, -370242, -453804, 403265>>
              [] hour = 5 -> <<-918005, 252497, 820322, 1359949, -90382, 1367597, 1034410, -996213, -1217939, -304964, 1028935, -72287>>
              [] hour = 6 -> <<-600658, 1552243, 286904, -2320594, 317161, 520041, 225609, 449712, -67276, -1318396, -370704, -945616>>
              [] hour = 7 -> <<-932741, -1263068, 452489, 97896, -448165, -649338, -23423, 1079195, -2004216, 376877, -545712, -1884586>>
              [] hour = 8 -> <<-1945703, -912783, 219510, 393063, -938982, 1017021, 1422983, 396087, -591403, 1124419, 755396, 867407>>
              [] hour = 9 -> <<-656464, -2834555, 2116791, -1610878, -35768, 2380745, 330577, 949246, -1502397, -1777667, -532703, 1090750>>
              [] hour = 10 -> <<-346249, -794636, 197967, 1081935, -1444940, -1210543, -788669, 1094638, 234822, 2132153, 936446, -35095>>
              [] hour = 11 -> <<1265078, 211497, -704921, 679975, -696327, -290397, 1327783, -101281, -803141, -464338, 1021791, -552541>>
              [] hour = 12 -> <<-386871, -510293, 183925, -385490, -1601836, -887181, -932789, 1243319, 812674, 587259, -505358, -815792>>
              [] hour = 13 -> <<-507518, -1051880, 2497200, -2245322, 564009, -1284552, -104343, -988002, -1177629, -1140196, 1754986, -132988>>
              [] hour = 14 -> <<-765702, 555787, 10349, 720034, -1824257, 303604, 772695, -1661598, 448195, 1696182, -14858, 821406>>
              [] hour = 15 -> <<670570, -707506, 39767, -1566995, -451303, 265688, 723100, 24612, 719984, -1102906, -101697, 19279>>
              [] hour = 16 -> <<1849591, -214167, -499017, 21351, -919113, 192754, -365055, -1791328, -58587, -317543, -1632423, -67134>>
              [] hour = 17 -> <<1489356, 521304, 611927, -1341497, 476898, 148450, 529045, 422629, -1359781, -41401, -757871, -50084>>
              [] hour = 18 -> <<-897401, 1312470, -858972, -898942, 74586, -1077099, -424663, -829965, 1411172, 785804, -57470, -391217>>
              [] hour = 19 -> <<940918, 405204, 498052, -26192, -1688230, -112466, -532490, 645055, 1011842, -657951, 468385, 1735879>>
              [] hour = 20 -> <<-667713, 1681922, -852586, 22960, -11146, 11499, -837678, -591183, -667720, 326963, 330035, 2225944>>
              [] hour = 21 -> <<1370989, -509843, 324870, 997118, 30602, -69642, 51575, 867277, -848321, -325669, 470433, 311447>>
              [] hour = 22 -> <<239583, -369801, 972536, 2133868, 406415, -193177, 755740, -539133, -749690, 32809, -2582797, -1153950>>
              [] hour = 23 -> <<-347962, -1353389, -1032643, -436748, -1642965, -406072, -535270, 25405, 1154184, 172504, 21062, 99454>>)
         [] day = 3 ->
           (CASE hour = 0 -> <<227393, -1016739, -114775, 308751, -1370760, 865653, 1081376, -631376, -241338, -878190, 699380, -1061222>>
              [] hour = 1 -> <<-222477, -858920, 50954, -1794229, 1326462, -964606, 59895, -212523, -762115, -887780, 936399, -525641>>
              [] hour = 2 -> <<271170, -801497, -647181, 472247, 930408, -175316, -1421920, 1997956, -856549, -1541587, 2594425, -404032>>
              [] hour = 3 -> <<-1461733, -683440, 367545, 190312, -851729, 1822724, -521580, -1184687, 960693, 1329063, -817493, -1401347>>
              [] hour = 4 -> <<1030438, -2047324, -1226622, 967446, -55353, -263937, 352817, -152774, -1298687, 1276075, 1325014, 205333>>
              [] hour = 5 -> <<45134, 2339625, -276433, -259577, 364481, 1471322, 1592771, -258573, 308331, -1378083, -311976, -840290>>
              [] hour = 6 -> <<-1006832, 1681577, -792287, -531606, 365849, 1297825, 481115, 2759355, -74668, 258716, 275601, 1435049>>
              [] hour = 7 -> <<507239, -116230, -947489, 244443, 1401345, -410382, 528944, 246148, 863520, -804754, 2346647, -1279161>>
              [] hour = 8 -> <<-365551, 938093, 296733, 829986, -496102, -74805, 12232, 1569260, 690429, 796672, -657926, 968883>>
              [] hour = 9 -> <<225582, 1389145, 2014060, -306766, -406303, -864045, -143580, -382025, 359504, -144567, -361599, 1064585>>
              [] hour = 10 -> <<-937880, 433108, -405942, 724369, 1385262, -303098, 441033, 178793, -799422, 240788, 289121, 412871>>
              [] hour = 11 -> <<-198399, 94192, -1147611, -358114, 555963, 892474, -422315, 104714, 228053, 201480, 540774, -1818078>>
              [] hour = 12 -> <<-49324, 239034, -1000330, 1673986, 161559, 1563405, -790523, -907300, 224252, -1678688, 214966, 97219>>
              [] hour = 13 -> <<1015665, 701041, -417477, -1097497, 1712305, -792115, -1045525, -1084856, 1117305, -518900, -753704, 137690>>
              [] hour = 14 -> <<-206945, -678095, 753991, 1065315, 985318, 766920, 402626, -1775888, 1669251, 301989, 608156, 1114962>>
              [] hour = 15 -> <<1433353, 418398, 435546, -599224, 33090, -854161, -719941, -893574, -156024, 1049093, 3170975, 189500>>
              [] hour = 16 -> <<-1348413, 1264983, -300784, -660609, 209849, -1240625, 222463, -88376, 98378, 381416, 67492, 16338>>
              [] hour = 17 -> <<284315, 415401, -1031482, -1429991, -61638, -1432735, 87531, 938747, 607112, -1048170, -860262, 328301>>
              [] hour = 18 -> <<-401298, -316655, 596906, -987287, -401235, -800082, -1043129, -857078, 677462, 51820, -879161, -231102>>
              [] hour = 19 -> <<-1638807, -733313, 2149575, -90244, 731659, -65488, 348169, 663258, -1104617, -30936, 1578865, -795501>>
              [] hour = 20 -> <<-566440, -307691, 269024, 524918, 1267412, 499498, -62053, 1259167, 704111, -1495680, 2526368, 1769921>>
              [] hour = 21 -> <<-168214, 377910, 1324359, -172201, 730352, 1104578, -1014826, -602332, 921408, 460814, 923797, -132568>>
              [] hour = 22 -> <<-289005, -1998639, -1146000, 47066, 824557, 531178, -128242, -271772, 217180, 78211, 1404546, 146441>>
              [] hour = 23 -> <<-1481246, -1272558, 1518759, -1171160, 764497, -268373, -169758, -134133, 1221385, -192842, -33319, -1530803>>)
         [] day = 4 ->
           (CASE hour = 0 -> <<206691, 531043, 239146, 1397896, 55171, 298977, 1648504, -1550014, -455825, 1426159, 936129, 678380>>
              [] hour = 1 -> <<832651, 327066, 1631597, 377759, 239867, 158959, 192864, -1157017, 770673, -130440, 1821915, -75650>>
              [] hour = 2 -> <<420918, 246602, -625557, 992137, 1905064, -14777, -300479, -355029, -1892362, -177813, 250998, 1054758>>
              [] hour = 3 -> <<960048, -416499, -276823, 1123905, -173464, -510030, 1392518, 1037586, 18792, -593777, -2011880, 589704>>
              [] hour = 4 -> <<-896370, -1962732, 1584821, 647968, -1139008, -1214401, 870962, -877971, 1296150, 616459, 536597, 404695>>
              [] hour = 5 -> <<191451, 880511, -454080, 85952, 751947, 562990, -1194987, -500410, 252804, -408015, 1774659, -393153>>
              [] hour = 6 -> <<-162218, 769430, 330533, -145274, -756494, 301514, 1039096, 479095, -778184, 1736775, -1446578, -1582686>>
              [] hour = 7 -> <<960557, 225840, -549499, -1098571, 2320800, 117091, 534201, 317885, 434808, 540094, 732424, -375222>>
              [] hour = 8 -> <<-291642, -1741023, -780304, 271113, 1045023, 599040, -340692, -1263173, -2777359, 1151734, -589229, -448465>>
              [] hour = 9 -> <<131574, -1405560, -349782, 2023472, 505387, 359249, -1582494, 2243602, -1422795, 1922325, -2115056, 1405365>>
              [] hour = 10 -> <<1618054, -824409, 422580, 547481, -813794, -1449118, -1317717, 541008, -85116, -564301, 966768, 508068>>
              [] hour = 11 -> <<-755463, -1201202, 523262, -537583, 99205, 1576299, 502328, -862267, 160661, -952645, 1608522, -561579>>
              [] hour = 12 -> <<207271, 307733, 159250, -1958549, -1446421, -452350, 319432, -137779, -957147, -1348424, -401558, -468476>>
              [] hour = 13 -> <<512836, -326318, 602708, -594650, -255958, -348046, -782367, 625119, -813596, -521642, -73120, -1297380>>
              [] hour = 14 -> <<-324935, -711306, -388154, -59928, -799914, -220076, 1308669, -25799, 1145262, 346494, 774161, -774459>>
              [] hour = 15 -> <<104907, 133913, -612626, -822828, -1490265, 1496140, -972403, 1346221, -467493, -862493, 622519, -631192>>
              [] hour = 16 -> <<568459, -332812, 480424, -968186, 831351, 487973, -919651, 2642936, 540123, 2290467, 1600268, -188835>>
              [] hour = 17 -> <<-412272, -403459, -1830029, -695835, 246766, 1525958, -772772, 882057, -1252593, -586320, -457641, 371811>>
              [] hour = 18 -> <<457310, 962342, 770837, 243168, 390365, 1588531, -510926, 774728, -1808144, 411334, -483250, 2571>>
              [] hour = 19 -> <<1040086, 164644, 885188, 1473765, 389094, 1171041, -326561, -8210, -522619, 1042978, 414091, -507234>>
              [] hour = 20 -> <<154669, 1041568, -39268, -948933, 131912, -1980566, 768771, -421328, -469311, 875696, -1365163, 1947099>>
              [] hour = 21 -> <<-480242, -523251, 1021225, 708695, 2451230, -211206, -120407, -1479316, -332102, -721431, -448767, -1744188>>
              [] hour = 22 -> <<1660608, -1416603, -2802203, -1188424, -603840, -1149554, 1098304, -137839, 25386, 610392, 286013, 978567>>
              [] hour = 23 -> <<-1109478, -547518, 665967, -2534554, -1375184, 500992, -480249, 936108, 809180, -1198093, 406657, 1201698>>)
         [] day = 5 ->
           (CASE hour = 0 -> <<147434, -977465, 879390, 635425, 542611, 715939, -2994613, 880938, 1808132, 436638, 192729, 696439>>
              [] hour = 1 -> <<338225, 651781, 1471, -766705, -1004323, -998192, -1373043, -1067742, 1761266, 754096, -625027, -390393>>
              [] hour = 2 -> <<112558, -655545, 67517, 777604, -35743, 336016, 886492, -272132, 284791, -309378, -28529, -324730>>
              [] hour = 3 -> <<-528870, 173712, 566545, 146304, 498727, -737932, -1203735, 417044, 687881, 49857, 1348036, 907699>>
              [] hour = 4 -> <<2680571, -200809, -998849, -740137, -565498, 476031, -2158069, 1318551, -239297, -246794, -1079343, -114226>>
              [] hour = 5 -> <<13240, -121945, 339059, -589632, -895816, 548328, 98667, 197181, 1059027, -1022564, -855240, 1257220>>
              [] hour = 6 -> <<-1482883, -1309412, 817862, 238200, 105232, -91659, 31268, -92112, 1355443, -398148, -161374, 1794449>>
              [] hour = 7 -> <<27510, 2232016, -104980, 1367415, -1655344, 153644, -1584474, 844454, -1212868, 283770, -282196, -1158203>>
              [] hour = 8 -> <<-1619360, -511040, 1740629, -293485, 917222, -57043, 876727, -1826911, -403188, 949406, -163255, -86455>>
              [] hour = 9 -> <<-430462, 1149379, 297514, 44022, 643055, 588225, 212587, 1547031, -60288, 278081, -642953, 150115>>
              [] hour = 10 -> <<1587762, -643258, -1133593, 996760, -148766, 96004, -45113, 79122, 850531, -839124, -1011774, 84968>>
              [] hour = 11 -> <<-1606440, -1373054, 1866683, 757468, -10056, 1238007, -1040599, -315603, 623454, 890672, 512917, -2541239>>
              [] hour = 12 -> <<-968082, 477068, -355951, 2540232, 926558, 558082, -1116950, -35297, 241204, 1127784, 881131, 1032989>>
              [] hour = 13 -> <<-923912, 1412152, -1380431, -535915, 430771, -149892, -1006037, -821550, -1548254, 531975, 1260569, -100394>>
              [] hour = 14 -> <<-400349, -1472323, 913202, 2211304, -1797456, -1063433, -679593, -564318, 227346, 1614250, 1008597, 527597>>
              [] hour = 15 -> <<-723929, -1119628, -796775, 1548067, -61743, -446836, -183756, 824618, -1312850, 1414874, 156476, -216344>>
              [] hour = 16 -> <<442846, 218397, -344196, -252711, -868863, 656391, -531994, -956258, 165864, 1329141, -48345, -608101>>
              [] hour = 17 -> <<403896, 1936712, -1451906, 382203, 205087, 1161534, 990909, -186709, -1684517, 806564, -835193, -946740>>
              [] hour = 18 -> <<1148351, -910850, 1402845, 335845, 319118, 307265, -1638424, -1776389, 215553, 568007, 82611, -821535>>
              [] hour = 19 -> <<18922, -82034, -957158, 1013972, -1730276, 588742, 384323, 1009712, -1005312, 101407, 2171165, 662074>>
              [] hour = 20 -> <<100581, 539161, 86177, 2190898, 983636, -85615, 252331, -390798, 1209850, -1406105, -1604739, 1458715>>
              [] hour = 21 -> <<2153120, 468305, 112738, 657268, -647054, 171244, 38909, 626564, -1557999, -507035, 844996, -675594>>
              [] hour = 22 -> <<-993361, 2042072, 38118, -578918, -1692370, 729346, 699136, -298760, -1102230, -24549, -835856, -942094>>
              [] hour = 23 -> <<-103213, -1051390, 246649, 607993, -839632, -1368245, 1561280, -940270, -659943, 213017, 599369, -256317>>)
         [] day = 6 ->
           (CASE hour = 0 -> <<460794, -400986, -971171, 1426317, 2488442, 1695970, 141807, 1833435, 355704, -477286, 466380, -94393>>
              [] hour = 1 -> <<-983118, -898322, 802052, -1846532, 604137, -1629584, -2121176, -1838847, 1966764, -196234, 86583, 1419255>>
              [] hour = 2 -> <<934180, -1391505, 869006, 184181, -341678, 24291, 1279812, -885966, 400886, -9657, -1797165, -802253>>
              [] hour = 3 -> <<193214, 1297342, 1001331, 597213, -815276, 1801214, 215240, -1006366, -182905, 896248, 7617, 886865>>
              [] hour = 4 -> <<1103694, 400531, -857703, 135455, 45166, 1859346, -1626322, -134822, -584094, 335106, -2437564, 1114925>>
              [] hour = 5 -> <<13748, -1844701, -361113, 608962, -1591448, 3222, -1057474, -555985, 26738, 183450, -470742, 272796>>
              [] hour = 6 -> <<817978, -278914, 1431568, 1462214, -428702, -637841, -1664173, -126569, -363438, 779051, -1509662, -277391>>
              [] hour = 7 -> <<968744, -730357, -762362, -1446940, 2620574, -747473, -1300347, -803850, -774295, -269390, 825372, -298323>>
              [] hour = 8 -> <<-922823, -1451338, 21857, 42539, 1530932, 92448, -99008, -1050654, -305953, -438474, -370164, -959255>>
              [] hour = 9 -> <<538330, -142445, -200353, -1714046, 493644, 487015, -839129, 990121, -1364758, -21870, -271207, -1317175>>
              [] hour = 10 -> <<189703, 1702570, 67634, -463022, 447024, 105720, 27762, -425542, 1421976, 456363, -528671, -108004>>
              [] hour = 11 -> <<-740867, -608291, -640726, -1134312, 777277, -291041, 554128, -670126, -60362, -711041, 719668, -248419>>
              [] hour = 12 -> <<-730874, -1641703, 275667, -708385, -15779, -491730, 954190, 544145, 447212, -616121, 466290, 1714832>>
              [] hour = 13 -> <<-832186, 172339, -1649217, 1398562, -397912, 782579, -1723228, 1797539, -356872, 545657, 150818, -255471>>
              [] hour = 14 -> <<1685792, -1648046, 298714, 910646, -29856, -118171, -142688, -1227636, 38127, 512718, 68599, -272276>>
              [] hour = 15 -> <<-489725, -279297, 1257744, -2086635, 40071, -327755, 1455808, 55492, 1484926, -2123890, 459585, 280058>>
              [] hour = 16 -> <<1390534, -1641349, -155036, 66060, -495795, 1216578, -338682, 2034763, 1054178, 950834, 559299, -1063696>>
              [] hour = 17 -> <<-431096, 572751, 677557, 1307184, -467441, -860153, 859104, -809627, 873312, 1199736, 456153, -357579>>
              [] hour = 18 -> <<41082, 593466, 10186, 2198296, -990671, -1002669, -976895, -589580, -2178932, -629650, -653285, 78514>>
              [] hour = 19 -> <<417801, -1240216, 900054, 1802242, -208285, 1574371, 198989, 1988732, 1117283, -1563905, 18627, 1054325>>
              [] hour = 20 -> <<30547, -36884, 1269765, -709854, 17516, 323626, -333791, -20129, 775023, 432838, -808718, -1104124>>
              [] hour = 21 -> <<-789102, 1248, -159940, -831957, -598150, -1520039, 417854, -40019, -1259787, 28621, 1342622, -739936>>
              [] hour = 22 -> <<1315138, -323457, 197828, 97751, 1401523, 158434, -1141901, -1310970, -1532921, -1711970, 46135, -958374>>
              [] hour = 23 -> <<-80812, -703859, -770784, -480845, 703586, 929145, 371173, -989823, 643631, 688897, 274647, -603620>>)
         [] day = 7 ->
           (CASE hour = 0 -> <<708860, 422819, -3116857, 644452, -1913743, 663562, -154072, 1193612, -98161, -886614, -147354, 1059806>>
              [] hour = 1 -> <<26247, -114335, 743554, 210359, -5927, 1366060, 1555114, 613326, -285959, 1496911, 1183120, 718897>>
              [] hour = 2 -> <<-1216077, 140672, -743672, -159012, 240057, 100159, -475175, 1272954, -1696131, 730184, -1857483, 382598>>
              [] hour = 3 -> <<-886904, 878304, 86453, 247706, -1018279, -654570, 207217, 583570, 2929096, 222858, 976038, -1556934>>
              [] hour = 4 -> <<-1329892, -355495, -1197428, 1486399, -410219, 1382182, 1486782, 42780, 501800, -56099, 538437, 483342>>
              [] hour = 5 -> <<-123650, 504970, 1723696, 713016, 325800, 124770, -1012673, -1027297, 323357, -1369391, -766328, 1281511>>
              [] hour = 6 -> <<1914230, -1665956, 1626650, -211438, -15005, -113412, 1080544, -1607677, 456164, -944870, 570789, 1542796>>
              [] hour = 7 -> <<-417, 374155, 409552, -799593, 1511639, 1706468, 701783, 73285, -461894, -626490, 1710837, 1414415>>
              [] hour = 8 -> <<-63661, -1579931, -2832012, -1083427, -130620, 1400689, -651656, 504815, 1303181, 128536, -142448, -1308764>>
              [] hour = 9 -> <<-1202475, 416100, -200908, 122531, -47278, 664144, -784687, -335581, 1896182, -799786, -281575, -589387>>
              [] hour = 10 -> <<444781, 1022392, -498212, -431414, -278982, 529834, -739395, -375960, -2372194, -1381745, -112444, 897864>>
              [] hour = 11 -> <<295076, -1098768, -1400256, 174680, -1652804, 1065927, 63896, -1607320, -965954, -724311, -773193, -1489933>>
              [] hour = 12 -> <<-874663, -684402, -711286, 1127957, 104828, -993257, -334622, -879557, -300007, 875509, 252271, 2285601>>
              [] hour = 13 -> <<375927, -913595, 809741, 1079931, 1094167, -1094241, -147637, 1131812, -1684729, -499417, -1426938, -932570>>
              [] hour = 14 -> <<-1012457, 1250570, -234538, -863356, -1035606, 141667, -11136, 1344074, 500017, -1431798, -628981, 1070073>>
              [] hour = 15 -> <<-621083, 1734572, -1098289, 572613, -861216, -509595, 1098582, -127067, 813452, 473291, 753866, -888188>>
              [] hour = 16 -> <<-221574, 424253, -849073, 1629500, -777228, -300004, -1006559, -2143308, 1796919, -204339, -447915, -198715>>
              [] hour = 17 -> <<1419864, -965107, 679568, -423788, -596671, 567058, 988241, -513903, -768849, -1169096, 1103504, -575256>>
              [] hour = 18 -> <<-1849131, 1409952, -1369860, 779461, 183429, 287915, -584375, 365591, -1667780, 588038, 1557010, 884027>>
              [] hour = 19 -> <<-2019540, -984209, -187795, 486937, -106653, -493214, 595300, 1164152, -232294, 728930, -2579051, -937509>>
              [] hour = 20 -> <<-321259, -488566, 332798, 1013751, 506669, -622225, -1522768, 556964, -1838177, 653037, -188449, -1175835>>
              [] hour = 21 -> <<287257, -2876, -36597, -84223, 419524, 924434, 496615, 1012133, -44140, 1618459, 571110, -543694>>
              [] hour = 22 -> <<-1093895, 205797, -1306522, -973376, 239087, -607887, -933316, -34475, 72678, -205834, -377547, 854643>>
              [] hour = 23 -> <<342427, -223426, 2464322, 193832, 1132005, -560981, -1362941, -791757, -268010, -496608, 1336386, -120041>>)
         [] day = 8 ->
           (CASE hour = 0 -> <<461469, -46481, -433554, 37996, 1714051, -767949, 766990, -1026007, -459626, 3583, 326375, 1483129>>
              [] hour = 1 -> <<-50083, -843616, 650042, -364170, 238682, -116222, -1943457, 508299, 583368, 926605, 1800463, -1195104>>
              [] hour = 2 -> <<516507, 409295, -419082, 397106, 499647, -1218684, 246223, -917984, -651856, -1774745, -473361, -203571>>
              [] hour = 3 -> <<549857, 900, -1542288, 862148, -118587, 488371, 965936, 1422605, 1961227, -72239, 311124, -1078361>>
              [] hour = 4 -> <<1061600, -1184887, -1805252, 830386, -521697, 777607, 408075, -1630003, -2719679, -1096602, 16491, -1221776>>
              [] hour = 5 -> <<-652761, -1458941, 169878, 90826, -481393, 1397065, 1497715, 565267, -1799771, -1104690, 407130, -628558>>
              [] hour = 6 -> <<-487091, 898967, 510875, 1314154, -429209, 1375225, -554131, 1499491, 105835, -860510, -1631220, -301472>>
              [] hour = 7 -> <<-256233, 857662, -110591, -432432, 1077037, -224827, -576242, 574609, -489828, 658802, -596917, -222959>>
              [] hour = 8 -> <<152177, -374126, -13451, 815472, 410602, 480970, -635430, 852830, 669562, 1004419, -726366, -172459>>
              [] hour = 9 -> <<633534, -608815, -226122, 1925806, 1951761, 1239941, 938585, -1019251, 512562, -359117, -1058572, -509006>>
              [] hour = 10 -> <<115665, -547356, -550799, 792041, 144106, 233458, 111872, -675703, -1370572, 310565, -507037, -2010782>>
              [] hour = 11 -> <<-392567, -1092218, 698650, 521625, 496893, -665042, 731552, 319650, -409855, -453337, 892708, -473604>>
              [] hour = 12 -> <<303656, 1033957, 1909343, 1663873, 900823, -1505911, -689048, -548087, 1653150, -699318, 386166, 100867>>
              [] hour = 13 -> <<-935127, 381824, 398296, -1255775, 1222877, -2086510, -590757, 971970, -1193258, 350266, -1296360, -93024>>
              [] hour = 14 -> <<-2313773, -842572, -1542921, -401764, -415231, -673664, 797913, -886880, 634387, 1629276, 139064, -857670>>
              [] hour = 15 -> <<-1249339, -709785, 704643, 155591, 936795, 770331, 140811, 473488, 1855246, 1415656, -302746, 989679>>
              [] hour = 16 -> <<585851, 1136388, 671617, -974167, -1619685, 572627, 1902618, -775664, -188090, -1035748, 1177830, -2305167>>
              [] hour = 17 -> <<-2263660, 375020, -82344, -479623, -301095, 536988, -413804, -1096925, -927363, 888339, -524742, -1385278>>
              [] hour = 18 -> <<102178, 504995, 1328961, 217903, -659711, 474008, 727175, -38905, -44599, 260133, -69856, 250114>>
              [] hour = 19 -> <<-1021913, -1150438, -836111, 642211, 258798, 1040239, -186691, -1143641, 1144554, -18767, 1283455, 597946>>
              [] hour = 20 -> <<2188619, -219773, 900724, 891364, -555126, -172482, -1461738, -1548796, 126569, 793007, 638024, 340025>>
              [] hour = 21 -> <<863017, -589698, -272533, 737522, 433119, -210189, 1320794, -1292001, -518679, -283398, 816535, 2385>>
              [] hour = 22 -> <<-1261492, 514004, 1087546, 739305, 619155, -1874313, -899886, 482081, -54888, 522558, -1266343, -61495>>
              [] hour = 23 -> <<-1389781, -1953679, 295779, 842589, 245616, -32996, -1562014, 1006107, -44045, 1959562, 942314, -2005125>>)
         [] day = 9 ->
           (CASE hour = 0 -> <<755050, -1396535, -759495, -250757, -94062, 397565, -1022855, -1150692, 600605, -13250, 174373, -2193683>>
              [] hour = 1 -> <<-177137, -890729, -920626, 921935, -1095671, -1092897, -331011, 450289, -884015, 1234144, 1449848, -881447>>
              [] hour = 2 -> <<-245082, -778675, -1685382, 303011, 733595, 2011864, -897410, 1336235, 1342354, 197853, 602163, 873273>>
              [] hour = 3 -> <<1974100, 477809, -60138, -866169, 305321, 1024165, 244610, -779923, 89076, -129153, 264739, -1661848>>
              [] hour = 4 -> <<550789, 595423, 444853, -3763, -1805936, -19323, 1060715, -860129, -1989269, -1540558, 314026, 372876>>
              [] hour = 5 -> <<886293, -55259, -1500328, -818504, 818839, 140496, 649830, 434789, -204961, -174007, 1857102, 414674>>
              [] hour = 6 -> <<-128588, 455420, 222906, -2157356, 650085, 1820939, -780280, 1454036, -256870, 293471, 1070360, -720001>>
              [] hour = 7 -> <<1242494, -1214217, -875155, -593520, 662005, -340874, -1519974, -216533, -784221, 731294, -343235, 70774>>
              [] hour = 8 -> <<-405472, 433939, -183591, 325199, -2593389, 97251, 413914, -199280, 669392, 738607, 1304214, 104812>>
              [] hour = 9 -> <<-1913801, -2285499, -1601841, -37907, -157305, 276240, -625246, -736491, 555048, 655924, -256650, -38477>>
              [] hour = 10 -> <<404314, 504344, -1143981, -719574, -1230546, -506907, 812334, 546272, -1098098, 512267, 85843, -493927>>
              [] hour = 11 -> <<-1406460, -174823, 679944, -2163098, -396123, 2254284, 672637, 259832, -737185, -678330, -83288, 1602864>>
              [] hour = 12 -> <<465589, -872158, 1176787, -292594, 1697346, -566603, -1003266, 174630, 982327, 1037445, 159192, -988097>>
              [] hour = 13 -> <<-505341, -2018282, -913122, -178457, 389002, -339454, -56979, -396185, 751025, -899113, 837548, 1960881>>
              [] hour = 14 -> <<472790, -527092, -536270, 1209837, -1126589, -953804, -1164448, -1278514, -1044816, 789905, 1102283, -697073>>
              [] hour = 15 -> <<207334, 759157, 100564, -954943, -1470402, 1010428, 496179, 576956, -1107647, 234977, 629000, 314034>>
              [] hour = 16 -> <<-745023, 1012261, -1527632, 928742, 1081056, 1572330, -342492, -999430, 793880, -699215, 43996, -317462>>
              [] hour = 17 -> <<-902072, 320999, -1392016, 592206, -966931, -1731731, -50107, 431634, 576935, 818354, -2353640, -1005144>>
              [] hour = 18 -> <<106652, 1519003, 783744, 1901340, -524939, 274417, -1099971, -404352, -735296, -633989, -393449, 2718>>
              [] hour = 19 -> <<22213, 543453, 139988, -344046, -522579, -307132, -449037, 490971, 865525, 1274045, -797703, 469372>>
              [] hour = 20 -> <<-1394680, 373175, 1082672, -149590, 1072636, -1138568, -888645, -135810, 1022210, -417429, -453553, -991628>>
              [] hour = 21 -> <<202881, 1246695, 700680, 696651, -206974, -563309, 677246, -31911, -173608, 898241, -197787, -837776>>
              [] hour = 22 -> <<909188, 80720, -1037029, -1112906, 95412, 2337410, -392821, -336274, 1523771, -57281, -1448467, -1572796>>
              [] hour = 23 -> <<1226664, 666355, 826126, -57757, -726712, -217163, 136031, -838311, 561450, -1259596, -332759, -204008>>))
      [] seed = 1 ->
       (CASE day = 0 ->
           (CASE hour = 0 -> <<1624345, -611756, -528172, -1072969, 865408, -2301539, 1744812, -761207, 319039, -249370, 1462108, -2060141>>
              [] hour = 1 -> <<-322417, -384054, 1133769, -1099891, -172428, -877858, 42214, 582815, -1100619, 1144724, 901591, 502494>>
              [] hour = 2 -> <<900856, -683728, -122890, -935769, -267888, 530355, -691661, -396754, -687173, -845206, -671246, -12665>>
              [] hour = 3 -> <<-1117310, 234416, 1659802, 742044, -191836, -887629, -747158, 1692455, 50808, -636996, 190915, 2100255>>
              [] hour = 4 -> <<120159, 617203, 300170, -352250, -1142518, -349343, -208894, 586623, 838983, 931102, 285587, 885141>>
              [] hour = 5 -> <<-754398, 1252868, 512930, -298093, 488518, -75572, 1131629, 1519817, 2185575, -1396496, -1444114, -504466>>
              [] hour = 6 -> <<160037, 876169, 315635, -2022201, -306204, 827975, 230095, 762011, -222328, -200758, 186561, 410052>>
              [] hour = 7 -> <<198300, 119009, -670662, 377564, 121821, 1129484, 1198918, 185156, -375285, -638730, 423494, 77340>>
              [] hour = 8 -> <<-343854, 43597, -620001, 698032, -447129, 1224508, 403492, 593579, -1094912, 169382, 740556, -953701>>
              [] hour = 9 -> <<-266219, 32615, -1373117, 315159, 846161, -859516, 350546, -1312283, -38696, -1615772, 1121418, 408901>>
              [] hour = 10 -> <<-24617, -775162, 1273756, 1967102, -1857982, 1236164, 1627651, 338012, -1199268, 863345, -180920, -603921>>
              [] hour = 11 -> <<-1230058, 550537, 792807, -623531, 520576, -1144341, 801861, 46567, -186570, -101746, 868886, 750412>>
              [] hour = 12 -> <<529465, 137701, 77821, 618380, 232495, 682551, -310117, -2434838, 1038825, 2186980, 441364, -100155>>
              [] hour = 13 -> <<-136445, -119054, 17409, -1122019, -517094, -997027, 248799, -296641, 495211, -174703, 986335, 213534>>
              [] hour = 14 -> <<2190700, -1896361, -646917, 901487, 2528326, -248635, 43669, -226314, 1331457, -287308, 680070, -319802>>
              [] hour = 15 -> <<-1272559, 313548, 503185, 1293226, -110447, -617362, 562761, 240737, 280665, -73113, 1160339, 369493>>
              [] hour = 16 -> <<1904659, 1111057, 659050, -1627438, 602319, 420282, 810952, 1044442, -400878, 824006, -562305, 1954878>>
              [] hour = 17 -> <<-1331952, -1760689, -1650721, -890556, -1119115, 1956079, -326499, -1342676, 1114383, -586524, -1236853, 875839>>
              [] hour = 18 -> <<623362, -434957, 1407540, 129102, 1616950, 502741, 1558806, 109403, -1219744, 2449369, -545774, -198838>>
              [] hour = 19 -> <<-700399, -203394, 242669, 201830, 661020, 1792158, -120465, -1233121, -1182318, -665755, -1674196, 825030>>
              [] hour = 20 -> <<-498214, -310985, -1891, -1396620, -861316, 674712, 618539, -443172, 1810535, -1305727, -344987, -230840>>
              [] hour = 21 -> <<-2793085, 1937529, 366332, -1044589, 2051173, 585662, 429526, -606998, 106223, -1525680, 795026, -374438>>
              [] hour = 22 -> <<134048, 1202055, 284748, 262467, 276499, -733272, 836005, 1543359, 758806, 884909, -877282, -867787>>
              [] hour = 23 -> <<-1440876, 1232253, -254180, 1399844, -781912, -437509, 95425, 921450, 60750, 211125, 16528, 177188>>)
         [] day = 1 ->
           (CASE hour = 0 -> <<-1116470, 80927, -186579, -56824, 492337, -680678, -84508, -297362, 417302, 784771, -955425, 585910>>
              [] hour = 1 -> <<2065783, -1471157, -830172, -880578, -279098, 1622849, 13353, -694694, 621804, -599805, 1123412, 305267>>
              [] hour = 2 -> <<1388779, -661344, 3030857, 824585, 654580, -51188, -725597, -867769, -135977, -797270, 282676, -826097>>
              [] hour = 3 -> <<621083, 956122, -705841, 1192686, -237942, 1155288, 438166, 1122328, -997020, -106794, 1451429, -618037>>
              [] hour = 4 -> <<-2037201, -1942589, -2506441, -2114164, -411639, 1278528, -442229, 323527, -109991, 8549, -168199, -174180>>
              [] hour = 5 -> <<461164, -1175983, 1010127, 920018, -195057, 805393, -701344, -537223, 156264, -190221, -448738, -672448>>
              [] hour = 6 -> <<-557495, 939169, -1943323, 352494, -236437, 727813, 515074, -2782534, 584647, 324274, 21863, -468674>>
              [] hour = 7 -> <<853281, -413029, 1834718, 564383, 2137828, -785534, -1755926, 714790, 852704, 35360, -1538793, -447895>>
              [] hour = 8 -> <<617986, -184176, -115985, -175459, -933915, -533020, -1426555, 1767960, -475373, 477610, -1021886, 794528>>
              [] hour = 9 -> <<-1873161, 920615, -35368, 2110605, -1306534, 76380, 367232, 1232899, -422857, 86464, -2142467, -830169>>
              [] hour = 10 -> <<451616, 1104174, -281736, 2056356, 1760249, -60652, -2413503, -1777566, -777859, 1115841, 310272, -2094248>>
              [] hour = 11 -> <<-228766, 1613361, -374805, -749970, 2054624, 53410, -479157, 350167, 17165, -429142, 1208456, 1115702>>
              [] hour = 12 -> <<840862, -102887, 1146900, -49703, 466643, 1033687, 808844, 1789755, 451284, -1684060, -1160170, 1350107>>
              [] hour = 13 -> <<-331283, 386539, -851456, 1000881, -384832, 1458108, -532234, 1118133, 674396, -722392, 1098996, -901634>>
              [] hour = 14 -> <<-822467, 721711, -625342, -593843, -343901, -1000169, 1044994, 608515, -69329, -108392, 450156, 1765335>>
              [] hour = 15 -> <<870970, -508457, 777419, -118771, -198998, 1866471, -418938, -479185, -1952105, -1402329, 451123, -694921>>
              [] hour = 16 -> <<515414, -1114871, -767310, 674571, 1460892, 592473, 1197831, 1704594, 1040089, -918440, -105345, 630196>>
              [] hour = 17 -> <<-414847, 451946, -1579156, -828628, 528880, -2237087, -1107713, -17718, -1719394, 57121, -799547, -291595>>
              [] hour = 18 -> <<-258983, 189293, -563789, 89686, -601157, 556074, 1693809, 196870, 169869, -1164008, 693366, -758067>>
              [] hour = 19 -> <<-808847, 557439, 181039, 1107175, 1442877, -539682, 128377, 1760415, 966539, 713049, 1306206, -604603>>
              [] hour = 20 -> <<636583, 1409253, 1620912, -806185, -251674, 382715, -288997, -391816, 684001, -353410, -1787913, 361847>>
              [] hour = 21 -> <<-424493, -731531, -1565738, 1013822, -2227113, -1699334, -275846, 1228956, 1309706, -1154983, -177632, -1510456>>
              [] hour = 22 -> <<1011207, -1476563, -143196, 1032984, -222414, 1470160, -870008, 369190, 853282, -139712, 1386314, 548130>>
              [] hour = 23 -> <<-1637450, 3958603, 648644, 107343, -1398813, 81768, -459943, 644354, 371670, 1853009, 142251, 513505>>)
         [] day = 2 ->
           (CASE hour = 0 -> <<372457, -148490, -183400, 1101000, 780027, -629442, -1113436, -67410, 1161440, -27529, 1746435, -775070>>
              [] hour = 1 -> <<141641, -2516304, -595668, -309121, 510938, 1710662, 34944, 1453918, 661681, 986352, -466155, 1384991>>
              [] hour = 2 -> <<-1072964, 495159, -952062, -518146, -1461404, -516348, 351117, -68770, -1347765, 1470740, 337221, 1008065>>
              [] hour = 3 -> <<785227, -664868, -1945047, -915424, 1225156, -1053546, 816044, -612407, 393109, -1823920, 1167075, -39669>>
              [] hour = 4 -> <<885826, 189862, 798064, -101932, 743357, -1509573, -1080711, 725474, -39178, -228754, -179612, 501725>>
              [] hour = 5 -> <<-593344, 510308, -915792, -407252, 984952, 1071252, -1097154, 838635, -1039182, 733023, -1898812, -1117111>>
              [] hour = 6 -> <<-508972, -166486, 1423614, 903999, 1575468, 1206608, -282864, -266327, 1068972, 40371, -156994, -1335203>>
              [] hour = 7 -> <<-106460, -2790996, -456118, -979890, 692574, -478672, -329052, 1347105, -1049068, 316659, -1895267, 89729>>
              [] hour = 8 -> <<410266, 859871, -898683, 319657, 318154, -19232, 150016, 463534, 397880, -996011, -1195862, 2505980>>
              [] hour = 9 -> <<1919792, -1391694, 450218, 627437, 751337, 140395, -926872, -182420, -491125, 134373, -268371, -131676>>
              [] hour = 10 -> <<1018552, 1230558, -1181103, -459930, -790800, 1223722, -59368, 1448989, -477581, 26000, -1348696, 1302536>>
              [] hour = 11 -> <<-362612, -1485156, -592461, -2304908, -31817, 112488, 288078, 1498108, -300976, 807456, 312239, -193322>>
              [] hour = 12 -> <<-2076802, 947501, -503974, 17956, -1270461, 282996, 108031, 29418, -134793, 1049218, 966221, 725917>>
              [] hour = 13 -> <<3321079, -600225, -379518, -1014804, 435986, -687487, -2698362, -1213338, 72252, 1009787, -1556942, -612442>>
              [] hour = 14 -> <<-139352, -728537, 531164, 4001, 321266, -725215, 1536536, -375, 1293550, -438998, 590039, -679384>>
              [] hour = 15 -> <<-950909, -704350, -45867, -218733, 1539207, -1148704, -1090338, 1700188, 608784, -1881411, 497269, 237333>>
              [] hour = 16 -> <<-2144444, -369562, -17455, 731403, 954496, 95747, 1033451, -146273, -857497, -934182, 542645, -1958169>>
              [] hour = 17 -> <<677808, -1106573, -359224, 505382, 1217941, -1940681, -806178, 49062, -596086, 861623, -2086391, 361802>>
              [] hour = 18 -> <<425920, 49080, 1102237, -1229574, 1108617, -702920, 725551, -324204, 814343, 780470, -1464054, -154491>>
              [] hour = 19 -> <<-92432, -237875, -755663, 1851438, 209097, 1555016, -569149, -1061797, 132248, -563237, 2390146, 245423>>
              [] hour = 20 -> <<1152599, -224236, -326061, -30911, 355717, 849587, -122154, -680852, -1067877, -76679, 572963, 457947>>
              [] hour = 21 -> <<-17818, -600139, 146765, 571805, -36818, 112368, -150504, 915499, -438200, 185536, 394428, 725523>>
              [] hour = 22 -> <<1495885, 675454, 599213, -1470237, 606404, 2293718, -830011, -1019520, -214654, 1021248, 524750, -477124>>
              [] hour = 23 -> <<-35990, 1037039, 672620, 2428877, 1005687, 353567, 614726, -348984, -977773, 171957, 490561, -1395283>>)
         [] day = 3 ->
           (CASE hour = 0 -> <<-522356, -369256, 265642, -260466, 445097, 98112, 1060328, -1711168, 1657125, 1417674, 50317, 650323>>
              [] hour = 1 -> <<606548, -737290, 164665, 778174, 309817, 1051321, 94996, 80751, -767804, -364538, -459718, 1705484>>
              [] hour = 2 -> <<240506, -999427, 398598, -192004, -3053764, 479852, -1552699, 578464, -961264, -1458324, 494342, -1494194>>
              [] hour = 3 -> <<-446699, 204377, 612233, 744885, -36281, -832395, 1923815, -605981, 1803589, -452525, 1161286, 1069966>>
              [] hour = 4 -> <<-1045534, 355285, 755392, 700982, -198937, 301960, -394690, -1171813, 984012, -559681, 1379758, 602451>>
              [] hour = 5 -> <<-892647, -161198, -286385, -870888, 501430, -478614, 1631692, 860891, -880189, -19001, -226760, -1564508>>
              [] hour = 6 -> <<931256, 949809, 925501, -456988, 1068986, -209753, 935148, 1812528, 140110, -1419149, -316901, 640986>>
              [] hour = 7 -> <<1219874, -1133792, -190548, 233339, 434998, 910424, -948440, -423478, 1007966, 392335, 448381, 1125323>>
              [] hour = 8 -> <<104053, 528003, -314564, -1345010, -1295258, 74321, -199561, -654603, 318014, -890272, 111337, -19523>>
              [] hour = 9 -> <<-839989, -2298206, 1456527, 316637, -2664126, -426429, 393788, -228141, 580330, -973268, 175168, -53484>>
              [] hour = 10 -> <<-183062, -221029, 199760, 932721, -530120, -407240, 160565, -120150, 385602, 718291, 1291189, -116444>>
              [] hour = 11 -> <<-2277298, -69625, 353870, -186955, -153236, -2432509, 507984, -324032, -1511077, -871422, -864830, 608749>>
              [] hour = 12 -> <<561638, 1514750, 647925, -1351649, -1409209, 1130725, 1566686, -237748, 558803, -1504891, -1943922, -1174024>>
              [] hour = 13 -> <<-357188, -521376, -230114, -491014, 679301, 1427547, 36197, 2029997, -634405, -525103, 387735, -354799>>
              [] hour = 14 -> <<1177052, -641108, 1322694, 194175, 2565453, -464115, -202694, 145652, -2181028, 602265, 480846, 109318>>
              [] hour = 15 -> <<-1544396, -1546561, 586619, 1175179, 1594465, -895442, -1030798, -271939, -1975730, -588931, 851790, 1634603>>
              [] hour = 16 -> <<279155, 1640554, 410873, 191364, -171441, 186937, -254853, -140911, -661892, 259032, 14448, -1479580>>
              [] hour = 17 -> <<-240701, -855671, -2048200, 483884, 1558688, 2369730, 1562420, -870802, 1175245, 1119899, -1987830, 861289>>
              [] hour = 18 -> <<627177, 162808, 288617, 58307, 1631936, -401789, -199939, 7389, 275664, -1763250, 1387974, 226200>>
              [] hour = 19 -> <<569125, 197316, -186441, -355242, 96114, 152052, 1155262, 346058, -133489, 1986565, -1279426, -1340209>>
              [] hour = 20 -> <<354602, -212373, -1774596, -312230, -710656, 1131129, -621252, 1050615, 459782, -206331, 21172, 428659>>
              [] hour = 21 -> <<-2308039, 327068, -379120, 1797919, -691269, 1142564, -2514925, 814625, 276103, -247016, -120889, -260561>>
              [] hour = 22 -> <<423003, -134249, -1787738, -185811, 2234722, 46846, 290788, -438055, 174054, 177946, -261202, 863263>>
              [] hour = 23 -> <<-923078, -130195, 505054, -267004, -1223880, 558264, -982161, -447308, -828148, -110728, -429386, -474590>>)
         [] day = 4 ->
           (CASE hour = 0 -> <<680979, 1762609, -357514, 522655, -355413, 98942, 1127751, 50293, -815547, -729927, -616746, -13304>>
              [] hour = 1 -> <<858011, -1358797, -1037289, -924541, -1749405, 1325923, -36379, 1900779, -1424334, 1294182, -701649, -407370>>
              [] hour = 2 -> <<-988964, -949864, -1323745, 216333, -1314201, -241802, -9202, 666611, 100392, 321326, 514412, -17251>>
              [] hour = 3 -> <<363348, -979720, -775470, 1897511, -11734, -710501, 1379880, -156843, -646491, -1448992, 779492, -1086301>>
              [] hour = 4 -> <<-539033, 644100, 183634, -86427, -213988, 1145927, 2230274, -548761, 568904, 1928800, 1079057, -686832>>
              [] hour = 5 -> <<-430681, -597969, -913443, -623905, 261875, -587029, 876200, 123255, -397126, 886090, 318972, 264868>>
              [] hour = 6 -> <<1040038, 573265, -108898, 937555, 309318, 2917309, 1098689, 1153213, 1290993, 79840, 1312895, 23357>>
              [] hour = 7 -> <<-831173, -563986, 527951, -1561120, 208353, -728350, 718216, -746174, 1872303, 767818, -1268859, 1758759>>
              [] hour = 8 -> <<-227253, -727476, -1023799, 567765, 1504522, -578427, -997621, -1139700, 1496405, 1670729, -348471, 537705>>
              [] hour = 9 -> <<-2905, -60630, 964023, 440956, 329490, -292579, 815600, -282006, 49922, 219477, -1201156, -299095>>
              [] hour = 10 -> <<-312603, 101203, -1111818, -1186552, 1623462, 1156444, 889039, 1824819, 419595, -91079, 482176, -1879287>>
              [] hour = 11 -> <<-1098083, 758637, 32615, -1277636, 658537, 998902, 667880, -30297, -836049, 107595, 426924, -358589>>
              [] hour = 12 -> <<603036, 314432, 333115, -2032540, 1081093, 1724392, -402468, -1476899, 638929, -465660, -967012, 1217716>>
              [] hour = 13 -> <<-1383379, 717429, -1247734, 1462268, 516552, -257395, 149370, 582087, 829894, 827791, 546730, -477382>>
              [] hour = 14 -> <<664080, -1311324, 1004093, 873006, 1394081, -588780, 186212, 858286, 317858, -426667, 307331, 68032>>
              [] hour = 15 -> <<995704, -628463, 339488, 292931, 757328, -72892, 127315, -70950, 34066, 8359, -326745, 2827300>>
              [] hour = 16 -> <<-843911, -1173410, -795627, -710053, 11437, 1430933, 1688384, 237324, -2498213, 384359, -1310655, -500702>>
              [] hour = 17 -> <<-1149723, 425623, -626607, 772120, 477302, -240070, 80560, 917420, -372132, 915619, -19316, 269397>>
              [] hour = 18 -> <<799241, 1331533, 520812, 58372, 720686, -1545448, 1638962, -1325491, 903709, -564164, 507252, -116567>>
              [] hour = 19 -> <<303590, -800787, -2160628, 406656, -600504, -648636, -725323, 1984411, -582192, 326813, -1160443, 1523097>>
              [] hour = 20 -> <<-556268, -2600642, 2711950, -1098149, 1308932, 733073, 652180, -231485, 189199, 1223936, -300931, 251310>>
              [] hour = 21 -> <<928290, 83389, -424983, 1451679, 341689, -125173, -775895, -1005597, 893784, 949268, -2170711, -615492>>
              [] hour = 22 -> <<964888, 2424307, 2150354, 941866, 1373332, -527419, 774535, -1237165, -561876, 320971, 2167937, 747963>>
              [] hour = 23 -> <<273827, -170084, -1322443, 602863, -349094, 239045, -889331, 121255, -1537029, 503906, 1319726, 913951>>)
         [] day = 5 ->
           (CASE hour = 0 -> <<2113824, 324554, 505363, 514865, -879730, 2153233, 988578, -242826, -902832, 581509, 857548, 137885>>
              [] hour = 1 -> <<186075, -188117, -2747, 1335141, 1400618, -1500177, 138879, -1204101, -1335695, 585953, -841569, -3153357>>
              [] hour = 2 -> <<645153, 1282142, 2038777, -396293, 1445445, -2621012, -1043400, 518969, 471534, 1320418, 956689, -81570>>
              [] hour = 3 -> <<1529248, 686483, 1717089, -804277, 300254, -429596, 805913, -219552, -251852, -1326490, 308204, 1115489>>
              [] hour = 4 -> <<1008196, -3016032, -1619646, 2005141, -187626, -148941, 1165335, 196645, -632590, -209847, 1897161, -1381391>>
              [] hour = 5 -> <<1301225, -312392, -271229, 1862913, -642874, 835058, -363053, -1432067, -166020, 1168926, -185892, 549422>>
              [] hour = 6 -> <<188553, 46831, -417498, 131782, -2032893, -448322, -1803944, 269699, 354660, -796065, 801308, 395831>>
              [] hour = 7 -> <<293572, -361404, 472793, 1054207, -660443, -816844, 1189011, -2318428, -2617290, -1814727, 181741, 152374>>
              [] hour = 8 -> <<496505, 75977, 1537380, 1575783, 1159011, -1155800, 363578, -866203, -500710, -1023362, 10712, 544124>>
              [] hour = 9 -> <<78692, -1193369, -1526035, -762085, -777638, 784273, -319281, -188666, -156935, 1096848, 1636115, 427059>>
              [] hour = 10 -> <<-248306, 1402502, 438241, -421097, 1010574, 207230, -1434031, 626906, 299825, -1856641, -2151043, 136301>>
              [] hour = 11 -> <<683356, 608580, -1360980, -347010, 666590, -1535752, 85283, 213329, 923756, -2453892, 144987, 2018122>>
              [] hour = 12 -> <<-621207, -316239, 953992, -763143, 1156955, 540533, -1574073, 100593, -1458982, 952548, -1680674, -1811754>>
              [] hour = 13 -> <<-1137304, -803073, 1314941, -18258, 291005, 1074900, -697810, -578326, -847453, 784905, 1633276, 258742>>
              [] hour = 14 -> <<-623280, -520361, -1112314, 731145, -1062929, -254633, -1168961, -1899463, -2539955, -889962, 218078, -317816>>
              [] hour = 15 -> <<-223575, -1071380, -931682, -1067702, 211234, 2047655, -136373, -1369280, 1272623, -998566, 557533, -442655>>
              [] hour = 16 -> <<81083, 3432663, -747526, -586680, 375235, -21947, -406071, -688408, 590494, 1077377, -952084, -1136433>>
              [] hour = 17 -> <<1829906, -1425156, 715333, 439127, -1102970, 759494, -1103216, -1089551, -1389550, 834283, -449346, 1085251>>
              [] hour = 18 -> <<-810140, 614663, 1407411, -86014, -1125453, -342571, 1256737, 739094, -385988, -1744372, 715537, 1630906>>
              [] hour = 19 -> <<1648594, 432790, -191029, -786121, -572602, -1649750, 2134552, -26964, 2384405, -74497, -1618318, 1861565>>
              [] hour = 20 -> <<-859827, -437908, 1648551, 1458773, -2026206, 1055, -1089535, 539138, 1812177, -517490, 1493223, -928644>>
              [] hour = 21 -> <<2172271, -825654, -463338, 296957, -1400594, 1549609, -1070017, 613952, -1289130, 109783, -10526, -388241>>
              [] hour = 22 -> <<489219, -1116832, 1521866, 202447, -2791444, 2005562, 452714, 1553565, -176937, -2262615, -419718, -1226070>>
              [] hour = 23 -> <<-38482, -482727, 209012, -1764408, 53782, -459582, 633509, -1692303, -425071, 1658399, -1181063, 738054>>)
         [] day = 6 ->
           (CASE hour = 0 -> <<1330506, -10090, 988511, 1041440, 1569756, -367832, -112299, 804123, -745644, 48051, -698571, -2329041>>
              [] hour = 1 -> <<334915, 1702430, -372065, 84297, -453105, -740963, 136104, 1072931, 2215843, 826477, -961364, -1427016>>
              [] hour = 2 -> <<1306831, 316715, -610463, -1056172, -807722, 1233425, -22359, -1400470, 872579, 310103, -291132, 607715>>
              [] hour = 3 -> <<-827684, 963905, -1424861, -903443, -1376883, -416559, -757451, -362646, 4768, 554253, 146532, 251860>>
              [] hour = 4 -> <<1604324, -266491, -1458336, 951382, 1835870, 187289, 839534, -655617, 185675, 637025, 378576, -539698>>
              [] hour = 5 -> <<1630630, 172816, 930198, 405779, 873674, 933253, -216155, 833679, 2160456, 1998992, 764041, 1687255>>
              [] hour = 6 -> <<-1307971, 1472396, 74876, -1786935, 165211, 976296, -696028, 1937132, 1349228, -1275114, 1009090, 111973>>
              [] hour = 7 -> <<-551680, -316632, -444995, -1216271, -448323, 692689, 1425942, 1458338, -573361, -117248, -859371, 1030002>>
              [] hour = 8 -> <<-1648153, -1363277, -635847, 251473, -321148, 33064, 47535, 233280, -1034463, -339360, 577612, 280229>>
              [] hour = 9 -> <<1093307, -746224, 906261, 1466625, -142590, 265930, 225189, 535671, 387921, 1469488, 513365, 864502>>
              [] hour = 10 -> <<331527, -1041770, 433360, -229956, -635087, -894371, -70397, -607464, 2039672, 1596772, -266930, 709157>>
              [] hour = 11 -> <<1156962, -172839, 1848233, 922110, -101709, -1799299, -965955, 318693, -438264, -20753, -787314, 246923>>
              [] hour = 12 -> <<-458302, -1552706, -341643, -572026, -1551658, 1423177, -76051, -326866, 750375, -82595, 767294, -1480655>>
              [] hour = 13 -> <<-1036656, 545228, 1491897, 30012, 216434, -823444, -29936, -708937, -160238, 722280, -1998764, 213026>>
              [] hour = 14 -> <<-804542, -646582, 1138173, 295440, 933630, -1763775, -410217, -453667, -589430, 440235, 895921, -1106779>>
              [] hour = 15 -> <<-962663, -1251957, 1147607, -514735, -101381, -332211, -963657, 373261, 383027, 941326, -225420, -297087>>
              [] hour = 16 -> <<-585522, 1488142, 1007567, -40385, 648974, -585844, 2054475, -591566, -379689, -371032, 1701235, 147602>>
              [] hour = 17 -> <<1084419, -110097, -1212975, 775480, -626457, -1318523, -416076, 631657, 1764285, -1387478, -2199058, 930157>>
              [] hour = 18 -> <<300051, -563473, 418362, 729443, 1912069, -130342, 1279800, -451756, -509669, 423773, -1114968, -1301959>>
              [] hour = 19 -> <<963193, -1963075, 113348, -324742, -373020, -1332305, -2035902, -660908, -1165218, -425419, 88036, -741760>>
              [] hour = 20 -> <<-1072525, 290041, -761835, -959532, -299153, 285491, 2108748, 1613562, -1263381, -1324249, 64717, 556999>>
              [] hour = 21 -> <<-131706, 2172333, 1177070, 1640057, -417871, -896880, -1070288, -113782, -1258350, -633792, -430770, 944285>>
              [] hour = 22 -> <<-472876, -1407064, -447473, 188583, 560918, -921659, 647375, 1386826, 489517, 238796, -448112, -610795>>
              [] hour = 23 -> <<-2029945, 607947, -354109, 152581, 501275, -786403, 1016996, 113111, 1496995, 168938, 318625, -273377>>)
         [] day = 7 ->
           (CASE hour = 0 -> <<1476414, -2103493, -532832, -305054, -1530421, -794703, -2172123, 190387, -1405228, 369860, -261782, -832714>>
              [] hour = 1 -> <<-1553783, -682848, 310624, -125447, 666244, -788330, 1605994, -237953, -845195, 1310159, 1357566, -90169>>
              [] hour = 2 -> <<-484302, 910075, -894137, 935192, -1387181, -83393, 11756, 1208099, -1829220, 234437, -120710, 2908>>
              [] hour = 3 -> <<-884106, -1301895, -463137, -241664, 1475183, 111382, -4276, 698346, -1611855, 722566, 915376, 907144>>
              [] hour = 4 -> <<-332994, -1235250, -984929, 247454, 536765, 1276550, 1521434, 871248, 33929, 264920, -235312, 1054868>>
              [] hour = 5 -> <<594272, 215860, -1255601, 1046661, -1526886, 1231782, 984630, -1587069, -48464, -1241394, -144619, 555170>>
              [] hour = 6 -> <<-136638, -1363868, 260827, 259488, -27235, -1045139, -349782, 268527, -155050, 2112622, 256079, -206761>>
              [] hour = 7 -> <<482598, -1105432, 420755, 1616794, -883771, 298835, 767113, -1693349, 1638889, -1044998, -335054, 380672>>
              [] hour = 8 -> <<-232603, 802937, 150925, 569751, 74973, 1472002, -2015498, 364094, -300615, -959033, -811610, -571980>>
              [] hour = 9 -> <<578411, -896130, -163184, 275249, -1155792, 1112349, 2421589, -674017, 919447, -309679, 533367, -181705>>
              [] hour = 10 -> <<2208662, -324332, 793930, 607366, -1083960, -2160269, 579087, 844518, -536705, -633375, 976803, 852833>>
              [] hour = 11 -> <<955877, 261402, -788276, -1217973, -1993137, -57682, 1919169, 477895, -79740, -1520746, -667930, 4939>>
              [] hour = 12 -> <<-222219, 908340, -158607, 695306, -114218, -189767, 1259134, -751977, -283053, -1292737, 96739, 1069501>>
              [] hour = 13 -> <<681402, 734012, 1053042, 625218, 758259, 403724, -975389, 526095, 945886, -891910, 235990, 1082813>>
              [] hour = 14 -> <<-373476, -1321107, 61534, 1593686, -912945, -105390, -751031, -358967, 234771, 1476814, -716644, -708655>>
              [] hour = 15 -> <<-872502, -1093790, -1534700, -851262, -105813, 40865, 1172449, -821600, -779938, -756837, 195746, -158472>>
              [] hour = 16 -> <<777209, -789141, 913259, 942513, -262468, -622537, 181169, -791534, 1992205, 140887, 792441, -1267107>>
              [] hour = 17 -> <<-1750758, 687266, 515887, -760605, -566776, -679944, 227827, 923852, -1544860, 478745, -874168, -530932>>
              [] hour = 18 -> <<-160435, -1361454, 2843939, 2424977, 752270, 656015, -1043610, 2377349, 18317, -123396, 1203994, 260800>>
              [] hour = 19 -> <<-776604, -218921, -376086, 64656, 554458, 532759, 1301202, -4103, 958069, 1706662, -1226023, 712571>>
              [] hour = 20 -> <<-1072332, -1507076, 1584662, 1135484, 523373, -476931, 1503561, -1367168, 67393, 485178, 1287127, -1526428>>
              [] hour = 21 -> <<-3064141, 115370, 317427, 173680, -877247, -44161, -1540079, 420593, 892588, -732032, -2003942, -129782>>
              [] hour = 22 -> <<-198500, -80607, 1303575, 138595, 2084123, 380743, -1087234, 1133613, -90344, -488771, 279401, 114784>>
              [] hour = 23 -> <<-1558594, -849519, 1152007, 175928, 638986, 1020153, 1792613, -639097, -703395, -924510, -600451, -912587>>)
         [] day = 8 ->
           (CASE hour = 0 -> <<-15001, -108233, 581238, -1190651, -653825, 359461, 698648, -2316617, -602071, -253620, -2041154, 448700>>
              [] hour = 1 -> <<1204128, -1943099, -1564929, 952182, 1135339, -1272776, -987621, 659419, -243024, -521316, 1594137, 297799>>
              [] hour = 2 -> <<-1819449, 253314, -1405258, 742057, 981994, 438562, 927820, 1964279, 726680, -371960, -1093304, 224451>>
              [] hour = 3 -> <<-1035038, -1438745, -461850, -1778318, -1300474, 501156, -475255, -306634, -25916, -1954192, 186224, -3830>>
              [] hour = 4 -> <<-45206, 342846, -2164928, 1911830, -303351, -1434214, 111530, -1271168, 66393, 540602, -1318897, 845426>>
              [] hour = 5 -> <<131092, 349084, 404068, 512434, 1120362, 860454, 486910, -764340, 286331, -557834, -1448752, -41377>>
              [] hour = 6 -> <<-912810, 1135141, -37709, 45263, 775206, -418124, -256595, 1164671, -1383679, -866955, -133694, 784789>>
              [] hour = 7 -> <<249792, -1157517, -919774, 1694460, 316269, -618441, -484278, 3740249, 1340272, -1636474, -458775, 722823>>
              [] hour = 8 -> <<-275481, 1139053, 1764250, 7560, 294740, -168662, 882799, 1499925, 934395, -1082978, 754363, -578754>>
              [] hour = 9 -> <<1748362, 476284, 1058129, -21059, -32338, 430778, -30801, 1578914, -1142196, 685416, -586660, 861046>>
              [] hour = 10 -> <<-1797116, 1286126, -309369, -1233673, 716684, -191777, 277139, 1227909, -1091191, -736377, 80407, 567515>>
              [] hour = 11 -> <<-703615, -793145, 771335, 983639, 1397273, -295135, -2582235, 523390, 759932, -1466823, 90380, 275308>>
              [] hour = 12 -> <<340355, -464694, 83433, 600394, -1776173, 911082, -365837, 764502, -702620, -1711765, 1181139, 1641136>>
              [] hour = 13 -> <<-1860531, -1292277, 94173, -1049360, 760252, -797064, -517581, 211435, -2178225, -319923, 2014649, 586885>>
              [] hour = 14 -> <<-999110, 1046015, 2063185, 1274668, -584611, -657596, -370477, -1049053, 29216, -1005689, -875239, 320819>>
              [] hour = 15 -> <<-563622, -204385, 2148178, 368219, 1190323, 437918, 602979, -1349175, -546972, -262254, -446627, -202909>>
              [] hour = 16 -> <<159902, -222612, 689593, -247798, 1083952, -13095, -594676, -1251391, -769384, -254311, 1202059, -1271874>>
              [] hour = 17 -> <<1040153, -91764, -831445, -1319091, 548995, -1906233, -461513, -440362, -163125, 581185, -614641, 120342>>
              [] hour = 18 -> <<-1217846, 57692, 608355, -351692, 368666, 104632, -344289, -60817, -195021, -1974248, -1499163, 432852>>
              [] hour = 19 -> <<-2088347, 1158382, -1409971, 30525, 472136, -636735, 1162589, -1370854, 906766, 148557, -151186, 1011696>>
              [] hour = 20 -> <<539254, -1204477, 1411811, 1003996, 103808, 149688, 1336237, 1658172, 612658, -1162621, 120250, 820020>>
              [] hour = 21 -> <<-834498, -1205867, 5778, 112364, 377830, 1230299, -2182425, 99861, -205678, 15749, 167433, 1025750>>
              [] hour = 22 -> <<558933, -45700, 89118, 105357, -132966, 1322014, -1912238, -1401496, 1597637, 573653, 630642, 1158187>>
              [] hour = 23 -> <<-2018355, 1439135, -1166464, -982739, 1036243, -1155716, 530921, 1427329, -649594, -589080, 672029, 896322>>)
         [] day = 9 ->
           (CASE hour = 0 -> <<341725, -1581368, 1610204, 622495, -2356865, -899787, -1060034, -777698, 256052, -715232, 1224947, 1108738>>
              [] hour = 1 -> <<74251, -1053227, -613, 406760, 1162457, -464294, 79722, -996740, -460982, 1168338, 1596203, -344974>>
              [] hour = 2 -> <<-264139, -760662, -1529598, 372760, 472690, 604447, 26132, 529211, 165382, 1244459, 374576, 1451335>>
              [] hour = 3 -> <<1072362, 359017, -1242301, 517272, 320762, 1918620, 742342, -1131271, -792864, 963937, -193112, -1202890>>
              [] hour = 4 -> <<490761, 493649, -118542, 861596, -104234, 1864815, -1097510, 907922, 990986, 1266867, -125254, -412994>>
              [] hour = 5 -> <<1740675, 546569, -585135, 832352, 1587083, 666381, -725980, 979425, -1537535, 776819, 978328, -221969>>
              [] hour = 6 -> <<277127, 150280, -535796, -857600, -278681, -622012, 1513841, -1355271, 1799212, -235411, -771039, -544246>>
              [] hour = 7 -> <<-1040963, -2032167, 815989, -153647, -838450, -1305833, -562829, -1251499, 1298572, -1896278, -958213, -883022>>
              [] hour = 8 -> <<475177, 253775, -144793, -172225, 398072, -795439, 483665, -1322762, 540306, -507257, 1128379, -1223351>>
              [] hour = 9 -> <<-453503, -820905, 940219, -1411293, 884148, 463217, 565973, -688159, 475341, 1750722, -691309, 253190>>
              [] hour = 10 -> <<-263081, -1100346, -824828, 524851, -45383, -2452920, 532288, -317589, 917747, -643634, 2306927, -948749>>
              [] hour = 11 -> <<766226, -1075460, 194956, -1147510, 1254849, -21104, 1494769, -97286, -1624359, -843117, -392169, 1381499>>
              [] hour = 12 -> <<2729462, -114157, 318017, 1250112, -1141308, -315603, 669593, 353133, -84323, -977401, 104190, 712877>>
              [] hour = 13 -> <<-718421, 74477, 2089741, 477337, 593124, -1036189, -550876, -317466, -838677, -1209100, -1565775, -207880>>
              [] hour = 14 -> <<832819, 616781, 676282, 912087, -858823, -683271, -235586, -891258, 249671, -663156, 1113953, -877852>>
              [] hour = 15 -> <<562542, 1678760, -1215225, -551323, -768158, -1060274, 260688, 500320, -732807, -512483, 242411, 313962>>
              [] hour = 16 -> <<-1111373, 2301635, -233441, 88120, -628069, -258695, -904289, 1628239, -1847188, -184949, 661114, -1597214>>
              [] hour = 17 -> <<461016, 1316506, 296370, 8, -34211, -281499, 580178, -863527, 326813, -338526, -581623, -1156376>>
              [] hour = 18 -> <<674528, -590645, 1077520, -28045, -3092, -1097873, -1000116, 546998, -96188, 58742, 651015, 521845>>
              [] hour = 19 -> <<-355832, 2894386, 3135047, 440313, -1439194, -893610, 581739, -576607, -81702, -1996746, 436182, 1208443>>
              [] hour = 20 -> <<-1214373, -343500, -359021, -2484895, -475650, -569165, -1393557, -874541, 246853, 341389, 324869, -575952>>
              [] hour = 21 -> <<-824905, 145388, -393142, 1036417, 1164309, -472613, -1633487, 183360, -668895, 822297, 700100, -1050609>>
              [] hour = 22 -> <<1048231, 1392277, 386224, 610146, -520928, -859160, 1254887, 241109, -91675, -68925, 752761, -215651>>
              [] hour = 23 -> <<-498428, -304744, -162497, -486471, 88282, -491599, -454928, 1986539, 7260, 1707986, -1004765, 754817>>))
      [] seed = 2 ->
       (CASE day = 0 ->
           (CASE hour = 0 -> <<-416758, -56267, -2136196, 1640271, -1793436, -841747, 502881, -1245288, -1057952, -909008, 551454, 2292208>>
              [] hour = 1 -> <<41539, -1117925, 539058, -596160, -19130, 1175001, -747871, 9025, -878108, -156434, 256570, -988779>>
              [] hour = 2 -> <<-338822, -236184, -637655, -1187612, -1421217, -153495, -269057, 2231367, -2434768, 112727, 370445, 1359634>>
              [] hour = 3 -> <<501857, -844214, 10, 542353, -313508, 771012, -1868091, 1731185, 1467678, -335677, 611341, 47971>>
              [] hour = 4 -> <<-829135, 87710, 1000366, -381093, -375669, -74471, 433496, 1278379, -634679, 508396, 216116, -1858612>>
              [] hour = 5 -> <<-419316, -132329, -39570, 326003, -2040323, 46256, -677676, -1439439, 524296, 735280, -653250, 842456>>
              [] hour = 6 -> <<-381516, 66489, -1098739, 1584487, -2659449, -91453, 695120, -2033467, -189469, -77219, 824703, 1248213>>
              [] hour = 7 -> <<-403892, -1384519, 1367235, 1217886, -462005, 350888, 381866, 566275, 204208, 1406696, -1737960, 1040824>>
              [] hour = 8 -> <<380472, -217135, 1173531, -2343603, 1161521, 386078, -1133133, 433093, -304086, 2585295, 1835333, 440690>>
              [] hour = 9 -> <<-719254, -583415, -325050, -560235, -902246, -590972, -276179, -516884, -698590, -928892, 2550438, -1473173>>
              [] hour = 10 -> <<-1021415, 432396, -323580, 423825, 799180, 1262614, 751965, -993761, 1109143, -1764918, -114421, -498174>>
              [] hour = 11 -> <<-1060799, 591667, -183257, 1019855, -1482465, 846312, 497940, 126504, -1418811, -251774, -1546675, -2082652>>
              [] hour = 12 -> <<3279745, 970861, 1792593, -429013, 696198, 697416, 601516, 3659, -228248, -2069612, 610144, 423497>>
              [] hour = 13 -> <<1117887, -274242, 1741812, -447501, -1255427, 938164, -468346, -1254720, 124824, 756502, 241440, 497426>>
              [] hour = 14 -> <<4108693, 821121, 1531760, -1985846, 365054, 774082, -364479, -875979, 396520, -314617, -593756, 1149501>>
              [] hour = 15 -> <<1335566, 302629, -454228, 514371, 829458, 630622, -1453364, -338018, 359133, 622220, 960782, 758370>>
              [] hour = 16 -> <<-1134318, -707421, -1221429, 1804477, 180410, 553164, 1033029, -329002, -1151003, -426522, -148147, 1501437>>
              [] hour = 17 -> <<869598, -1087091, 664221, 734885, -1061366, -108517, -1850404, 330488, -315693, -1350002, -698171, 239951>>
              [] hour = 18 -> <<-552949, 299527, 552664, -840443, -312271, 2144678, 121106, -846829, 60462, -1338589, 1132746, 370305>>
              [] hour = 19 -> <<1085806, 902179, 390296, 975509, 191574, -662209, -1023515, -448175, -2505458, 1825994, -1714067, -76640>>
              [] hour = 20 -> <<-1317567, -2025594, -82245, -304667, -159724, 548947, -618375, 378794, 513251, -334844, -283520, 538424>>
              [] hour = 21 -> <<57251, 159088, -2374403, 58520, 376546, -135480, 335908, 1904376, 85364, 665334, -849996, -852342>>
              [] hour = 22 -> <<-479985, -1019649, -7601, -933831, -174997, -1437143, -1652200, -675662, -1067067, -652931, -612095, -351262>>
              [] hour = 23 -> <<1045478, 1369016, 725353, -359474, 1496952, -1531111, -2023364, 267973, -2206, -139292, 32565, -1640560>>)
         [] day = 1 ->
           (CASE hour = 0 -> <<-1156699, 1234035, 1028185, -721880, 1933157, -1070796, -571382, 292432, -1195000, -487931, -173071, -395346>>
              [] hour = 1 -> <<870841, 592807, -1099297, -681531, 180067, -66931, -787750, 424754, 819885, -631119, 789060, -1621674>>
              [] hour = 2 -> <<-1610499, 499940, -834515, -996960, -263388, -677360, 327067, -1455359, -371519, 3160966, 109951, -1913523>>
              [] hour = 3 -> <<599820, 549384, 1383781, 148349, -653541, 1408834, 712061, -1800716, 747599, -232897, 1110645, -373339>>
              [] hour = 4 -> <<786146, 194169, 586204, -20387, -414409, 67313, 631799, 417593, 1615176, 425606, 635364, 2102229>>
              [] hour = 5 -> <<66126, 535558, -603141, 41958, 1641915, 311698, 1451170, -1064928, -1400845, 307526, -1369639, 2670337>>
              [] hour = 6 -> <<1248450, -1245727, -167169, -576611, 416022, -57847, 931887, 1468332, -221321, -1173156, 562669, -164515>>
              [] hour = 7 -> <<1144855, -152118, 829789, 336066, -189044, -449329, 713524, 2529735, 837616, -131682, 707593, 114054>>
              [] hour = 8 -> <<-1280895, 309846, 1548291, -315828, -1125904, 488497, 1830947, 940176, 1018717, 2302378, 1621093, 712683>>
              [] hour = 9 -> <<-208704, 137618, -103352, 848351, -883126, 1545387, 145840, -400106, 815206, -2074922, -834437, -657718>>
              [] hour = 10 -> <<820564, -489157, 1424967, -446858, 521109, -708194, 1155531, -254530, 518925, -492995, -1086548, -230917>>
              [] hour = 11 -> <<1098010, -1017878, -1529391, -307988, 780754, -1055840, -543883, 184302, -330676, 287208, 1189528, 21202>>
              [] hour = 12 -> <<-65410, 766116, -61635, -952897, -1014463, -1115264, 1912601, -45263, 576910, 717806, -938999, 628776>>
              [] hour = 13 -> <<-564493, -2087807, -215050, -1075029, -337972, 343213, 2282540, -495779, -163963, 371622, 186522, -158429>>
              [] hour = 14 -> <<-1082930, -956626, -183377, -1159807, -657768, -1251448, 1124483, -1497840, 1902017, -580383, -1054916, -1182757>>
              [] hour = 15 -> <<779480, 1026598, -848666, 331540, -149591, -242441, 151197, 765069, -1916631, -2227341, 206690, -70876>>
              [] hour = 16 -> <<684760, -1707539, -986570, 1543536, -1310271, 363434, -794872, -405286, -1377758, 1186049, -1903821, -1198140>>
              [] hour = 17 -> <<-910066, 1176454, 299211, 679267, -17661, 236041, 494036, 1546278, 246858, -1468776, 1147100, 95557>>
              [] hour = 18 -> <<-1107439, -176286, -982756, 2086683, -344624, -2002079, 303234, -829875, 1288769, 134925, -1778601, -500791>>
              [] hour = 19 -> <<-1088162, -757856, -643745, -2008785, 196263, -875896, -893609, 751902, 1896932, -629079, 1812086, -2056266>>
              [] hour = 20 -> <<562705, -582071, -74003, -986496, -594722, -314812, -346941, 411444, 2326391, -634053, -154410, -1749289>>
              [] hour = 21 -> <<-2519579, 1391162, -1329346, -745596, 21261, 910918, 315276, 1866208, -182498, -1828266, 138956, 119450>>
              [] hour = 22 -> <<-818899, -332639, -586388, 1734516, -612752, -1393442, 279434, -1822231, 427017, 406988, -844308, -559820>>
              [] hour = 23 -> <<-600520, 1614873, 394953, -1203813, -1247472, -77546, -13340, -768323, 291234, -197331, 1076830, 437410>>)
         [] day = 2 ->
           (CASE hour = 0 -> <<-93198, 135631, -882709, 884744, 383204, -416994, 117797, -536685, 2487185, -451361, 518836, 364448>>
              [] hour = 1 -> <<-798349, 5658, -320935, 249514, 256308, 767625, 783020, -407063, -524892, -589809, -862531, -1742873>>
              [] hour = 2 -> <<603671, -79613, -211273, -1657735, -1501040, -2515439, -102961, 669229, 594309, -78107, -1078739, -8982>>
              [] hour = 3 -> <<2359, 705753, 765867, -266237, -34685, 696194, 457189, -170702, -2168618, -665180, 838713, 149828>>
              [] hour = 4 -> <<953177, -345242, 80271, 793525, 687824, 391683, 1088858, 1335312, 1390346, -1651680, -486319, -328568>>
              [] hour = 5 -> <<-364615, -1637614, 1301120, -1001305, 99499, -2404226, -507074, -258049, -935869, 735410, 2380484, -875581>>
              [] hour = 6 -> <<-865210, 1751818, 562041, -316094, -1279557, 732650, 213159, 1552513, -870952, -173561, -307935, -216831>>
              [] hour = 7 -> <<1057635, 842369, -640419, -92323, -230813, 889122, -176246, -1117962, -345308, -47777, 917220, 1275827>>
              [] hour = 8 -> <<1290768, 364109, -517934, 581286, -190925, -625254, 289253, 400297, 863532, -904882, -1673636, 499184>>
              [] hour = 9 -> <<-971332, 990153, -1108352, -590091, -1818252, 2036650, -470807, -95969, -540146, -254511, 813676, 88131>>
              [] hour = 10 -> <<-28936, 1172683, -1370424, 1113530, 1576890, -1406700, 252946, -1305433, -2129869, -867126, 505365, 738652>>
              [] hour = 11 -> <<-386626, -884578, -457309, -735641, -649205, -2428253, -257125, -136978, 2162462, 657551, -160263, 53026>>
              [] hour = 12 -> <<308356, -722288, -2103558, -751375, -248143, 93572, -739607, -945752, -287704, 30060, 547262, -266318>>
              [] hour = 13 -> <<414104, -1022988, 789523, -80748, -1387169, -276666, 82822, -1087395, 702014, -356136, 431989, -1017863>>
              [] hour = 14 -> <<287747, 704451, -462866, -214453, -592967, 311604, 10034, 478805, -80306, -1292224, -1333404, -469841>>
              [] hour = 15 -> <<440207, 2242663, 848821, -633261, -2045867, 494494, -1953, -1231664, 875689, -10776, -430336, -1950277>>
              [] hour = 16 -> <<949122, 50907, -266021, -978931, -383810, 1221850, 507227, 1989835, 1048389, 332763, 884359, 148886>>
              [] hour = 17 -> <<-1462678, -616844, 321336, -946447, -530139, -1259207, 1677544, -1331162, -1052874, -898985, 961104, 1116516>>
              [] hour = 18 -> <<-565119, 565122, -903361, -7642, 2603700, 935916, -50867, -1334412, -308003, -1328915, -2192967, 599466>>
              [] hour = 19 -> <<576275, 193928, 993506, -1677565, 1392130, -1088752, 374290, 451434, 1074361, 1996111, 345449, -382803>>
              [] hour = 20 -> <<-1113301, 258003, -848414, -1358454, -202841, 671147, -309983, -1053332, 141641, -1244104, -1518373, 1458971>>
              [] hour = 21 -> <<242874, 1980220, -1474628, 1036918, -176856, 2679644, -215424, -444455, 423821, 188961, -459135, 911748>>
              [] hour = 22 -> <<690181, 885692, 400419, -709654, -700278, 592993, -939057, 1698045, 32495, -794178, 1037565, -20193>>
              [] hour = 23 -> <<1197180, 211787, 1768297, -383485, -2184178, -1516205, -1633884, 589894, 1809145, -195038, -1334359, 682921>>)
         [] day = 3 ->
           (CASE hour = 0 -> <<453702, -381165, 407948, 6410, -1150218, 685618, -504768, -949689, -236323, 1568005, 1962370, 1400137>>
              [] hour = 1 -> <<-495002, -1027169, 343943, -162003, 139033, -1130404, -886219, -1075892, 772704, 1062319, -682624, 582614>>
              [] hour = 2 -> <<641540, -739932, 9876, 813434, -1014663, 1246282, -206170, 59368, -244349, -1481772, 339037, -6827>>
              [] hour = 3 -> <<-410137, -219942, 417309, -147417, -530243, 80430, 754161, 35925, -796181, 830879, -296409, 585360>>
              [] hour = 4 -> <<-145964, -944298, -1275113, -900500, -234141, -2252685, 383009, 1099609, -242162, -1109508, -1666977, 225318>>
              [] hour = 5 -> <<411976, 57586, 696361, -672420, -252546, 275751, -226032, 487200, 495588, -271821, -963965, -724377>>
              [] hour = 6 -> <<1095542, -1204168, 59731, -996325, 2307115, -634541, 633711, -968500, 3191901, -1336227, 356436, -1253065>>
              [] hour = 7 -> <<819207, -1255812, -443511, -1595134, -397706, 629, 1741225, -2303033, 544912, 41931, -608914, -212194>>
              [] hour = 8 -> <<390699, -37520, -44051, -780616, -401027, 483982, -922444, -518975, 73428, 325969, 385998, -201989>>
              [] hour = 9 -> <<-2034451, 761485, 1001471, 1194510, 339460, 843393, -297175, -1114311, -175331, -249693, 991660, 792991>>
              [] hour = 10 -> <<-522655, -429012, -52865, 62993, 1404530, -501512, 1272245, -1401853, -693226, 1647875, 373227, 81932>>
              [] hour = 11 -> <<568726, -234483, 35110, 196785, 197750, 336836, -597657, 337937, -730028, 560022, -188145, 225961>>
              [] hour = 12 -> <<255542, -758512, -553797, -164129, 424801, 913505, -74241, -698822, 218196, -41930, 729059, 1178595>>
              [] hour = 13 -> <<1915679, -1660405, -492985, -96082, 753658, 649636, 35934, 741614, -568695, -384533, 277722, -1080675>>
              [] hour = 14 -> <<1538736, -807965, -1143801, 296695, -1920748, -447284, -185306, 1253567, 3009431, 151647, -1298238, 241037>>
              [] hour = 15 -> <<642954, -931714, 326331, 1552335, 471300, -794150, -568612, -1643543, -446904, -590225, 1363825, -1552758>>
              [] hour = 16 -> <<-1580070, 174284, 571034, -560999, 175141, 646350, 716881, 348281, 520956, -1551460, 778366, 122683>>
              [] hour = 17 -> <<-836932, -407456, -306069, -559133, -179737, -403748, -1460154, 2120783, 361507, 2181731, -292709, 1584936>>
              [] hour = 18 -> <<-146943, 1539413, 899889, 740252, -193204, 201998, 1311306, -2000077, -698165, -1256573, -926608, 600310>>
              [] hour = 19 -> <<817851, -209372, 1113416, -743297, -604458, 115817, 392723, -137539, -1071334, 558713, 1689881, -378988>>
              [] hour = 20 -> <<20505, -1110493, -8721, -915559, 167049, 1541288, 517836, -725315, 798810, -1721530, 1200239, 296490>>
              [] hour = 21 -> <<-1064403, -328244, -910870, 1982163, 561164, -1011075, -677101, 148227, -578089, 223690, 366593, -1454460>>
              [] hour = 22 -> <<599848, 1656869, 306336, 607953, -522742, -517912, 291614, -887197, -1616535, 812154, -656299, 203718>>
              [] hour = 23 -> <<100597, 394161, 583054, 511527, -302847, 799971, -370369, 341522, -630963, 69607, -860096, 1371320>>)
         [] day = 4 ->
           (CASE hour = 0 -> <<311716, -741051, -1794633, -734806, 1284566, -654576, 960322, -232249, -346823, -1065816, 264579, 1004944>>
              [] hour = 1 -> <<752270, 496797, -1057505, 70434, -1164527, -876099, 334596, -1094167, 445127, -352266, 1386990, -205904>>
              [] hour = 2 -> <<436472, 943538, 519106, 571924, -1787706, 820371, -1677021, -749026, -2514379, -415142, -752133, -324518>>
              [] hour = 3 -> <<-1064511, -255828, -813826, -282296, 728237, -2255939, -140629, -246088, -1635406, -528353, 1320966, 268012>>
              [] hour = 4 -> <<-655807, 635648, 264484, -1372074, -457747, -134621, -76728, 251829, -81514, -39894, -618694, -454538>>
              [] hour = 5 -> <<-604132, 420163, -202511, -667508, 664857, 2335438, -221180, 1187036, -600098, 152157, 851184, 1069322>>
              [] hour = 6 -> <<2079377, -512494, 53844, 1330418, 1279321, -860217, -14182, 998359, 1218200, -946169, 354671, -2216668>>
              [] hour = 7 -> <<1013293, 1757731, -1092666, -218257, -1414579, -458428, 542969, 585076, 405289, -1388168, -841291, 1865595>>
              [] hour = 8 -> <<231317, -424251, 252924, -578686, 165448, -762559, -672464, -1562628, 1751497, 719335, 624554, 869421>>
              [] hour = 9 -> <<-123474, -1079584, 513065, 690742, 538394, -389119, -1507076, 794009, 412146, -56747, -231419, -126224>>
              [] hour = 10 -> <<-558316, -1467581, -103649, -428595, 321506, -306710, 287317, -1201366, 453915, 2068711, -95958, 630972>>
              [] hour = 11 -> <<877512, 357747, 245142, -1553948, -812017, 1546339, 208003, 214760, 1942956, -1706041, 1055692, 655032>>
              [] hour = 12 -> <<-1939630, -627642, 429178, -697148, -759225, 610438, -183357, 194336, -157069, 138419, 307221, 2213150>>
              [] hour = 13 -> <<409262, -696114, 385979, 263919, 3310680, -1416867, 696617, 264612, 1534355, -1015693, -1226603, 356302>>
              [] hour = 14 -> <<841614, 444286, 636712, -41278, 1007236, 132660, -499859, 1471232, -858536, -1598905, -391584, -134473>>
              [] hour = 15 -> <<-61830, -296672, 377759, -336772, -866126, 1400522, -171726, 1095428, 176218, 487578, 1543877, -1852759>>
              [] hour = 16 -> <<1128327, 66997, 874328, -446667, 10177, -151390, -1099412, -61687, 1810532, 1273556, 1404988, -223101>>
              [] hour = 17 -> <<-173188, -439585, -2053447, -238015, -744194, 875011, 932842, 439776, -888807, -590678, 1344860, 327631>>
              [] hour = 18 -> <<1010205, -442735, 969005, -320691, -480685, 274700, -719349, -1145355, 1364328, 697774, -468756, -17272>>
              [] hour = 19 -> <<1134876, -508925, -2414969, 2267274, -1468958, -455945, -2191908, -2200022, 327544, -1311168, 633083, -159127>>
              [] hour = 20 -> <<-166071, 615304, 651916, 1359294, -1382588, -746319, 672765, 766744, -536744, -1232539, 2887, -2996762>>
              [] hour = 21 -> <<-1678710, 1121887, -1291149, 2040918, 114107, 267248, 2695427, 897840, -319746, -557115, -645833, -2066902>>
              [] hour = 22 -> <<366968, 20714, -692898, 869400, -610450, -1770912, -1118161, -70477, 293658, 1843957, -426571, 488540>>
              [] hour = 23 -> <<985168, 568160, 262205, -1168308, -427351, 2131246, 140154, -71394, -1200077, 214527, 1689429, -631962>>)
         [] day = 5 ->
           (CASE hour = 0 -> <<-957559, -103476, -537494, -700781, 2115465, 726787, -1476744, -121852, 858199, -362256, 745905, -1199818>>
              [] hour = 1 -> <<455430, -114895, 497385, -126066, -726032, 326817, 392173, 578761, -1432873, -568116, -294323, -351827>>
              [] hour = 2 -> <<-437133, 17672, 1286021, 1647945, 1091709, 474161, -3326870, -722067, 466792, -986960, 1049926, -733520>>
              [] hour = 3 -> <<87547, -504842, 195783, -1507040, -375393, -923136, -1164811, -1702446, 909283, -1182105, 641468, -219038>>
              [] hour = 4 -> <<376647, -102918, -140030, -1352678, 2551138, 944090, 887589, -2311148, -785046, -834665, 76649, -794724>>
              [] hour = 5 -> <<514029, -12262, 681604, 1006493, -942035, -733425, -1035250, 708528, -218618, -555780, -1390487, 236018>>
              [] hour = 6 -> <<-141523, -11856, -479614, -1562008, 1129848, -117759, 131833, -859558, 1209221, -943726, -587679, -1002617>>
              [] hour = 7 -> <<-1222779, 645943, -582930, -1151448, -284262, -412355, -87236, -698067, 115066, -1769097, -1029072, 587930>>
              [] hour = 8 -> <<715458, -1892635, 252308, -157309, 1024996, -1164260, 264523, 725862, -1474564, -771103, 820560, -337854>>
              [] hour = 9 -> <<777865, 55703, -1478163, -2111, 281048, -659016, 917124, -1413961, -156552, -422178, -911520, -1550036>>
              [] hour = 10 -> <<-2120773, -1321612, -278885, -675849, -252668, -328425, -562311, 117914, 738638, -1587296, 153200, -1733669>>
              [] hour = 11 -> <<2083059, -1019133, -484130, 765397, 318321, 832443, 1314475, -390998, 1869799, -729383, -373421, 785659>>
              [] hour = 12 -> <<-2413138, -712705, -298726, 738017, -781799, 769027, -1112589, 897460, 687336, -574313, -351201, -258267>>
              [] hour = 13 -> <<-449673, -638825, 1282365, 349158, 380549, -1602314, -97253, 1020012, 57881, -586768, -162020, 734519>>
              [] hour = 14 -> <<-234930, -2169850, -826101, 79424, -1616176, -64822, 399266, 2146890, 1386577, 320775, -1828355, 226272>>
              [] hour = 15 -> <<-1507732, -1109933, 1042805, -842105, 606840, 133075, 865057, -243980, -209376, 1473344, 643256, 314444>>
              [] hour = 16 -> <<-31547, 521807, -146395, 573343, -124750, -1729950, -1689388, -693947, 1971357, 1358822, -412419, -820499>>
              [] hour = 17 -> <<-515622, -237564, 1194371, -587758, -1504834, -526466, -1227086, 1488181, -166974, 79093, -65672, -1960490>>
              [] hour = 18 -> <<224367, 472260, -426200, 339348, -363225, -120838, 781891, -418841, 492486, 71280, -9271, -516628>>
              [] hour = 19 -> <<-725014, -6172, 1183387, 374757, 1199909, 19951, -1576148, 1180488, -53545, 1104276, 756558, 849018>>
              [] hour = 20 -> <<456306, -2953756, 837503, 290407, 761448, 902256, 331844, 662951, -1445675, 108533, 718677, 660001>>
              [] hour = 21 -> <<-875053, -1832358, -599745, 46511, 274866, 1635452, 1239564, -739546, 631319, -410909, 793202, -671775>>
              [] hour = 22 -> <<1295598, -552807, -358372, -920081, 816667, 65822, 427641, 745141, -838512, 1658153, 771348, 234157>>
              [] hour = 23 -> <<2027, -254233, -528476, 922512, 195572, -18225, -552991, 172440, 2041298, 463754, -1979875, -2299471>>)
         [] day = 6 ->
           (CASE hour = 0 -> <<713835, -1369922, 290008, 624276, 695993, 1986075, -394933, 229035, -592454, -1289933, -768470, 1458999>>
              [] hour = 1 -> <<1469479, -803988, 814497, -163683, 905418, -874858, 325121, 154258, -861903, -545906, -483160, 31158>>
              [] hour = 2 -> <<1683744, 1614659, 1624626, 625723, 992359, -962699, 86169, 1140722, 388984, -626927, 516896, 250624>>
              [] hour = 3 -> <<217430, -503625, 707361, -124274, -730243, 29359, 611436, 1391156, 1186971, -1720905, 1099975, 612677>>
              [] hour = 4 -> <<517376, 1433878, 1734059, 714857, -56143, -481296, 285441, 460009, -616587, 1807653, 1619807, 953263>>
              [] hour = 5 -> <<1993966, 983320, -273023, 990492, 2114703, -141108, -1182878, 1064311, -1622344, -927679, 445539, -323923>>
              [] hour = 6 -> <<1804312, 96396, 720144, 1195716, 133329, 598217, -1729981, 2111304, 167013, -188091, -558387, 272090>>
              [] hour = 7 -> <<-537743, 263227, -603512, -1393252, -735139, -795681, 402079, 148342, -495026, 337515, -617451, -34380>>
              [] hour = 8 -> <<-279145, 417702, -872105, -146455, -30880, -1091572, 51528, -42927, 920704, -1101211, -1453981, -1611942>>
              [] hour = 9 -> <<213722, -533342, -988778, 236391, 856982, 1878472, 1234982, -644956, 1446450, -745333, 418266, 771018>>
              [] hour = 10 -> <<-1468822, 132924, 97286, 2178749, -603700, 755337, -173213, 84095, -928949, 980031, 1245237, 1187414>>
              [] hour = 11 -> <<-1699492, -1853289, -73487, 1127394, 802764, -257193, -688451, 1675608, 1418628, -730200, -64453, -93654>>
              [] hour = 12 -> <<2075227, 706246, 1123272, -874364, 277681, -105050, 150001, 408800, -69978, -1054240, 1162660, -938059>>
              [] hour = 13 -> <<-789415, -1835686, 352613, 125623, -657417, -867991, 168423, -295239, -1025429, 453053, 905845, 365941>>
              [] hour = 14 -> <<846912, 244432, 1546264, 909784, -330795, 1101841, 365959, -502502, -663419, -282887, -1944606, -749511>>
              [] hour = 15 -> <<-483123, -1533080, -861443, -980078, -1529383, -134761, 209161, 344651, 1138761, -172536, -475762, 5114>>
              [] hour = 16 -> <<1247595, 1586802, -554211, 402744, -151178, 575325, -2431169, -419791, -1866306, -3136547, 379628, -918960>>
              [] hour = 17 -> <<1286028, 788292, 1262143, 823994, -459355, 377281, -1507500, -1203564, 500023, 1787898, 218616, -1124956>>
              [] hour = 18 -> <<-71308, 606459, 1029574, 156563, 1734763, 1088771, 409077, -342813, 2415257, -427943, -299834, -907183>>
              [] hour = 19 -> <<261504, -1742385, 550138, -1625223, 651394, -1458138, -1303005, -792271, 152710, -270308, -1042159, -226524>>
              [] hour = 20 -> <<534682, -1845195, 1237279, -59167, -2699606, 121778, -234789, -490382, -375520, -455901, 735721, 173226>>
              [] hour = 21 -> <<598728, -235634, 1285846, -167111, 586649, -168860, -147407, 893030, 845292, 63556, 132501, -345992>>
              [] hour = 22 -> <<654587, 366136, 861961, 224029, 10605, 868513, -121853, 756222, 1039921, 1480849, 205925, 311436>>
              [] hour = 23 -> <<940453, 175642, 606701, 205220, 20937, -639721, 227257, 653045, 339474, -155026, 337139, 1580545>>)
         [] day = 7 ->
           (CASE hour = 0 -> <<93948, -519781, 1759853, -364509, 1600010, 672762, -1198423, -36014, -72082, -82934, -104696, 810094>>
              [] hour = 1 -> <<516526, 1524982, -41927, 102547, 846534, 112635, -213952, 526422, -771162, -907602, -259497, 730711>>
              [] hour = 2 -> <<1020135, -777908, -336918, 524232, 439395, -617202, 1045542, -105932, 70721, -464958, 1249256, 1206811>>
              [] hour = 3 -> <<-69086, 1369907, 1153889, 832250, 129398, 998864, -488082, -341049, -105747, 707983, 1394690, -1682159>>
              [] hour = 4 -> <<21439, -619083, 582945, -1211359, 1829620, -443620, 1481769, -1128919, 588053, 1692044, 1344567, -1023720>>
              [] hour = 5 -> <<-1064193, -1454372, 523477, -1396660, 1878755, 865504, 1516868, -403121, -115938, 100817, -1304144, -1302717>>
              [] hour = 6 -> <<206262, -328976, -8749, -1111665, 641258, 1376307, 424282, -445318, 847245, 849322, 287918, -878248>>
              [] hour = 7 -> <<-1891002, 1841682, 499183, -334749, -674269, -2308140, 1058262, -65612, 303971, -101437, -64478, 528856>>
              [] hour = 8 -> <<-1293097, -643426, 537010, 1143934, 401054, 506594, -865313, -640720, 281520, 140740, -172943, 7623>>
              [] hour = 9 -> <<-1584100, -1554797, 643559, 30336, -779765, 300174, 3491877, -609040, 394165, -42929, -555313, -754703>>
              [] hour = 10 -> <<1101648, -520426, -1744327, 1767300, -636044, 761264, 281433, -322852, 1724991, -932334, 296483, 450938>>
              [] hour = 11 -> <<-1473014, -830501, 825215, 2033335, 672523, -2333543, 1111228, -1644503, -901280, -34110, 179922, -157349>>
              [] hour = 12 -> <<-272576, 2386157, -1467107, 279373, 1055255, 699222, -1649375, 1383211, 1327412, -840610, -679172, 1365129>>
              [] hour = 13 -> <<180413, -1013977, 492582, -836420, -1058988, -2131635, 368282, -828296, -991489, -495210, 771193, -114777>>
              [] hour = 14 -> <<895474, -131071, 1127469, 1677683, -10872, -71843, -1672090, -549442, 1714184, 714320, -1645416, -1032285>>
              [] hour = 15 -> <<-651772, 31649, 64167, -53283, 388278, -17396, -617207, 213589, -2676027, -962157, -168725, 607747>>
              [] hour = 16 -> <<571451, 1277993, 1165427, 202027, 139675, 540915, -521446, -461505, 200374, -1110987, 176582, 249115>>
              [] hour = 17 -> <<1433579, -1258666, -620169, 1202307, -612853, 288241, -741112, 1288477, -1357076, -551023, -827142, 1200560>>
              [] hour = 18 -> <<80281, -1813998, 1636687, -1543768, 190426, 868542, -590913, -760819, -1365283, -1671546, 2519570, 1019038>>
              [] hour = 19 -> <<1220943, -1797524, -606989, -1445693, 715088, 1775172, -695013, -800303, 1351258, -1201220, 608576, -568405>>
              [] hour = 20 -> <<724468, -538739, -1620076, 158699, -1552278, 428436, 1899949, 1281464, -1418253, -1665909, -2629727, -1078356>>
              [] hour = 21 -> <<-1557563, -1019861, 1948588, 357672, 99046, -718219, 115720, 503960, 138381, 871389, 949636, -686315>>
              [] hour = 22 -> <<-1087233, 1318315, -1437885, 358196, 282615, 1660979, -739613, -1478160, 1524872, -883814, -2364899, -1330854>>
              [] hour = 23 -> <<-51320, 1232891, 499839, -105836, -820923, 47473, 642780, -799429, 228841, 1739550, -181611, -277686>>)
         [] day = 8 ->
           (CASE hour = 0 -> <<-246549, 211196, -647034, 889983, 449970, 723763, -404119, 859963, 1656309, -207675, -299306, -56304>>
              [] hour = 1 -> <<-664304, -287105, 1170568, 300534, -328203, -432227, -911725, 865162, -876192, 16558, 70469, -1702956>>
              [] hour = 2 -> <<-274071, 408405, -2228426, -1357808, -14091, -349787, 326769, 1084066, -58104, 269154, 201963, -2236047>>
              [] hour = 3 -> <<-495001, -266923, 860916, -549569, 491937, 541106, -1323964, -1790702, 1082497, -842856, 1004047, 54583>>
              [] hour = 4 -> <<665094, -1962605, 2112715, -2807457, -1396775, 264119, 1092517, 664602, 856554, -1105823, 371579, 1344012>>
              [] hour = 5 -> <<-1642127, -1153127, 201316, 1398566, 722873, -1071724, -567334, -366350, -1546035, 2040695, -496021, -613167>>
              [] hour = 6 -> <<-1744968, 184074, -79545, 1240630, 862574, -123907, 585476, 1933682, -732252, -392050, 751215, -594745>>
              [] hour = 7 -> <<475317, -1083593, 822840, 704772, -585434, -1269941, 325527, 45737, -1366246, 1020269, -731063, 1496712>>
              [] hour = 8 -> <<1343316, 256637, 734615, -1433265, 17831, 568642, -1263975, -1459029, 1590660, 402628, 1424913, 1001981>>
              [] hour = 9 -> <<-2819268, -1122861, -152321, 55654, 137875, -675063, -88562, -1015109, 1286138, -970800, -577768, 891728>>
              [] hour = 10 -> <<-562589, 176544, -905527, -36894, 409455, -1529802, -1678562, -1167330, 826016, 547073, 833019, 1491390>>
              [] hour = 11 -> <<-401688, -727471, -117511, 241847, 1098887, 133050, 569650, -592955, -1592815, 1882160, 160800, -358734>>
              [] hour = 12 -> <<141019, 2266571, -458668, -436629, -725841, -392347, -1983370, 1287228, 25895, -877869, 1119426, -368207>>
              [] hour = 13 -> <<1478652, -180420, -42568, 310293, 589395, -623940, -603301, 213216, -1903926, -2864217, -72373, 150295>>
              [] hour = 14 -> <<1158246, -106467, 1141277, 1394766, 122153, -614173, -946673, -178856, -1416030, 236224, 804655, -597595>>
              [] hour = 15 -> <<981926, -860513, 63059, 225501, -1944081, -270392, 927809, 1169732, 1276050, -707511, 152398, -1583754>>
              [] hour = 16 -> <<711810, 18587, 897579, -1305178, 1348704, 66621, -1341871, 765785, 2182818, 289569, 273683, -1601570>>
              [] hour = 17 -> <<-212020, 996434, 273307, -155001, -708755, 1929301, -548132, -1664939, 228499, -314186, -406328, -793675>>
              [] hour = 18 -> <<-871706, -1143605, 1027019, -1011682, -917659, 199573, 695690, 343181, -310642, -671710, 67911, -489293>>
              [] hour = 19 -> <<-246432, 916927, -78219, 843192, -595541, -326867, 11644, 337457, -1135478, -986811, 1818890, 277696>>
              [] hour = 20 -> <<-544084, -1641118, -603644, 1015726, 1332234, -1177992, 26035, 642624, 715776, 180837, 12297, 413345>>
              [] hour = 21 -> <<-554234, 323238, 736348, -339143, 1315693, 979833, -521495, -492326, 225021, 394727, 467398, 208214>>
              [] hour = 22 -> <<-143142, 2249755, 1922029, 517939, 554464, 685769, 1151284, 417518, 1221769, -1833063, -670988, -661769>>
              [] hour = 23 -> <<-1587760, -402023, -594243, -916536, -1063088, 532088, -878122, 512940, -861450, 118290, -1372716, -1786611>>)
         [] day = 9 ->
           (CASE hour = 0 -> <<397692, -78252, 2249687, 618918, 463560, 309854, -427595, 649882, -357282, 579722, -546462, 1270065>>
              [] hour = 1 -> <<133395, -169885, 510468, -428509, -1739104, -157741, 926703, -711068, 877891, 843905, 577180, -1706390>>
              [] hour = 2 -> <<2750532, 1461142, 145711, -777855, -1028395, -1582107, -329074, 1108478, -1264452, -182601, 762759, 1009726>>
              [] hour = 3 -> <<309813, -745375, 1934326, 595189, 576055, 984151, -689644, -1107255, -1050960, 1518497, 462572, -1347493>>
              [] hour = 4 -> <<-1160021, 45992, -1282700, -180279, 238774, 249372, 1052241, 1710695, 96289, 236419, 1617710, 394495>>
              [] hour = 5 -> <<248610, 894229, 199846, -73683, 1103019, -411301, -182388, 249928, 990192, -1496469, 1374756, 934492>>
              [] hour = 6 -> <<-1027415, 923663, -554049, 1237031, -8746, 416441, -1293695, -32965, -364183, 699712, -557539, 510167>>
              [] hour = 7 -> <<2430564, -29279, 1107148, -411565, 866997, -1135161, 1320991, -438303, -775770, -724884, -573495, 630332>>
              [] hour = 8 -> <<246014, 968719, 637243, -529709, -267285, 1144104, 1627568, 1228881, 1013928, -857051, -2037370, 1292014>>
              [] hour = 9 -> <<-50757, -904465, -63042, 766442, -198894, -859261, -215288, 880418, 822848, -2229281, 731730, 44709>>
              [] hour = 10 -> <<1142966, -2155937, -141093, -564921, -260449, -1093147, -421023, -1041846, 557037, 3089850, 98131, -412790>>
              [] hour = 11 -> <<3576968, 18601, -239629, 976089, -953269, -149559, -1433288, 601434, -752316, -755103, -621676, 1010021>>
              [] hour = 12 -> <<-432716, -197478, 634409, 1425246, -2398822, 912787, 1049249, 1117942, 601009, -819680, 453550, 237442>>
              [] hour = 13 -> <<265962, -207626, -277743, -2260229, 327754, 915229, 1209410, 1717034, 1339340, -249342, 785641, -375779>>
              [] hour = 14 -> <<1335517, -283961, 1704881, -1117974, 480752, 394317, -492494, -544230, -547977, 1319531, -388493, -993974>>
              [] hour = 15 -> <<-942805, 947684, -407011, 2361548, 2412864, 633302, -195599, 1397800, -476130, 1324711, 793996, 246587>>
              [] hour = 16 -> <<-499389, 500358, 76252, 405478, -36239, 1732387, -1479873, -1304132, 669909, 197220, -1376026, 607792>>
              [] hour = 17 -> <<52083, -2756579, 1711770, -343331, -500952, -585637, -1630866, -854084, 900362, -749814, 85750, -2016969>>
              [] hour = 18 -> <<271245, -382216, -5, -221610, -260163, -370122, 1175430, 1219655, -302847, 429038, -811049, -893948>>
              [] hour = 19 -> <<-480610, 1101079, -2824843, -901813, 368043, 460283, -73309, -999547, 338053, 837290, 1074795, 357597>>
              [] hour = 20 -> <<-360971, 450824, 1024925, -24283, 16893, -1380930, 1317103, 15118, -2173737, 442593, 1539073, -2513564>>
              [] hour = 21 -> <<1658664, -70436, 666826, -1186843, 379793, -123915, 366223, -1345048, -1009197, -1653201, 1948639, 666383>>
              [] hour = 22 -> <<-353624, -58207, -1085562, -499010, 251918, -1888887, -1967313, -1454567, -1006530, 1176542, -43028, -354042>>
              [] hour = 23 -> <<888464, 547515, 287170, 169635, 254454, -1977484, 1243304, 768248, 1126589, 1105212, 330017, 746328>>))
      [] seed = 3 ->
       (CASE day = 0 ->
           (CASE hour = 0 -> <<1788628, 436510, 96497, -1863493, -277388, -354759, -82741, -627001, -43818, -477218, -1313865, 884622>>
              [] hour = 1 -> <<881318, 1709573, 50034, -404677, -545360, -1546477, 982367, -1101068, -1185047, -205650, 1486148, 236716>>
              [] hour = 2 -> <<-1023785, -712993, 625245, -160513, -768836, -230031, 745056, 1976111, -1244123, -626417, -803766, -2419083>>
              [] hour = 3 -> <<-923792, -1023876, 1123978, -131914, -1623285, 646675, -356271, -1743141, -596650, -588594, -873882, 29714>>
              [] hour = 4 -> <<-2248258, -267762, 1013183, 852798, 1108187, 1119391, 1487543, -1118301, 845833, -1860890, -602885, -1914472>>
              [] hour = 5 -> <<1048148, 1333738, -197415, 1774645, -674728, 150617, 152946, -1064195, 437947, 1938978, -1024931, 899338>>
              [] hour = 6 -> <<-154507, 1769627, 483788, 676216, 643163, 249087, -1395764, 1391663, -1370669, 238563, 614077, -837912>>
              [] hour = 7 -> <<145063, 1167882, -24104, -888657, -2915738, -971841, -591079, -516417, -959996, 377295, -574708, -109454>>
              [] hour = 8 -> <<679072, -855437, -300206, 2158149, 874286, -1293537, -79741, 564486, 1233471, 148986, -530582, -730527>>
              [] hour = 9 -> <<645062, 313060, -516648, -189072, -416198, 724658, -689961, 486414, 851519, 486249, -834240, 1344992>>
              [] hour = 10 -> <<-678213, 426435, -753335, -1744110, 225750, 287035, -77441, 276068, -648411, -737465, -168090, 1909277>>
              [] hour = 11 -> <<814815, -519992, 558713, -478365, -457261, 859284, -525265, -1675635, -906495, 88415, 128008, 1241617>>
              [] hour = 12 -> <<-716026, 731466, 425967, -149014, 835844, 492119, -862308, 1071684, -1220902, 59615, 2444, 424636>>
              [] hour = 13 -> <<-725433, -34943, -140620, 997088, -795915, 72746, -261240, -1298047, 2676112, -71219, -1486658, 1408627>>
              [] hour = 14 -> <<-1070585, 370870, 862832, -648432, -430890, -540270, -129361, -1622461, -1235637, -140786, 1038952, 631744>>
              [] hour = 15 -> <<1729417, 694052, -511129, -122843, -2030394, -960775, -1020359, 270593, 647830, -560373, -588502, -1546556>>
              [] hour = 16 -> <<-127762, 248168, 445781, -782709, 1988490, 1195058, -95238, -527188, -321585, 151130, -18628, 483529>>
              [] hour = 17 -> <<768965, 1366243, 1147265, -110229, 388250, -387127, -587220, 1910827, -459846, 1990738, -349035, 252825>>
              [] hour = 18 -> <<1089410, 23922, 393125, -241385, -475525, -165777, -649717, 1631383, -167699, 1722669, -2685109, 18421>>
              [] hour = 19 -> <<561952, -293821, 1094653, 639692, -274600, 435009, 2811878, 251995, 299502, -439991, 133497, -1289261>>
              [] hour = 20 -> <<-198290, 2457588, 1067216, 641421, 1103922, 1881755, 593588, 2070879, 1069798, 166520, 1719477, -2359215>>
              [] hour = 21 -> <<-571349, 265787, -912091, -156058, -638791, -654415, 2711926, 627474, -53948, 1315167, -237337, 885340>>
              [] hour = 22 -> <<350816, 1626574, -1419871, 765721, 122250, -1157383, 1065420, -872376, 1619238, 513093, 695484, 80457>>
              [] hour = 23 -> <<904528, -1865651, 74728, -628251, 282660, -47157, 616578, -837631, 1839152, 2315859, -208283, -14973>>)
         [] day = 1 ->
           (CASE hour = 0 -> <<287558, 1264086, 1896901, -1205803, -615109, -1062156, -1112781, -1639296, 362803, -1159036, 1503262, 908319>>
              [] hour = 1 -> <<-1029710, -1030209, -612384, 1399965, -849607, -1493550, -49424, 373390, -657257, 1619431, 240457, 453038>>
              [] hour = 2 -> <<-855533, -39730, -156519, -2272244, 287657, -1794807, -28786, -1473943, 2019651, 326262, 861358, 919008>>
              [] hour = 3 -> <<-1324489, -2281792, -329578, 897150, 91035, 785432, 936633, -1492397, 287684, 1966475, -570532, -2029072>>
              [] hour = 4 -> <<-231905, -464669, 418381, -892406, 90717, -2217418, 853963, 1586867, 1297878, -1515216, 319196, -2983970>>
              [] hour = 5 -> <<283186, -64360, -995794, 343795, 138015, 939503, 127309, 235027, -1945072, -1159723, -475899, 296845>>
              [] hour = 6 -> <<-6299, 1500890, -870159, -239632, 255081, -231497, 495580, -570563, 1420342, -319590, 1115945, -30303>>
              [] hour = 7 -> <<1491522, -1398116, 516798, -432576, 231401, 1192805, -1139097, -1322030, -998367, 254388, -1886837, 96594>>
              [] hour = 8 -> <<-1286229, -1143722, -369178, 380598, -626415, -492044, -41844, -272736, -2676521, -430101, 84964, 1097779>>
              [] hour = 9 -> <<2046333, 666988, 79092, -964763, 89053, 778897, 1264645, -880511, 236406, 815604, 1860812, 255590>>
              [] hour = 10 -> <<-541504, -689600, -357441, -651920, 826536, 1069306, 724857, 1192186, -453769, 380335, -384663, 43659>>
              [] hour = 11 -> <<1224986, -29735, -1864806, -252816, -712850, -1508917, -790366, 960625, 1680911, -489006, 1002536, 1178222>>
              [] hour = 12 -> <<-1159792, -39363, -44460, 172386, -1593751, -349142, 1057821, 1262203, 1831362, -337509, 1869508, 665905>>
              [] hour = 13 -> <<-1359201, 761609, -352280, 519076, -102524, 1208239, 256560, -282505, 964966, 256222, -412956, 1277274>>
              [] hour = 14 -> <<-408345, -637135, -539575, -1465472, -553207, 1860878, -908284, 8419, -1108183, -611353, 1518692, 896356>>
              [] hour = 15 -> <<-610250, 6220, -826004, -784205, -914822, -897140, 325949, 596793, 488242, -169437, -1358045, -67110>>
              [] hour = 16 -> <<-924294, 881301, 556443, 746892, -348368, -1811019, 957896, 1226321, -1483317, 137916, 1193253, -1075724>>
              [] hour = 17 -> <<1767683, -349032, -1075390, 1371658, 294532, -653138, 879788, -1955767, 1815306, -816250, 285984, -398616>>
              [] hour = 18 -> <<436232, 887926, -823886, 786363, -294033, -687860, -224044, -1004609, -795668, 949134, -150823, 1141533>>
              [] hour = 19 -> <<431757, -1025968, -1897871, -687242, 264126, 8813, -830096, 1012812, -1745724, -1258647, 127295, 2193763>>
              [] hour = 20 -> <<413934, -1005240, 592657, 683397, 937857, -409865, -799726, 118217, 415275, 1598235, 2089649, -733070>>
              [] hour = 21 -> <<-522972, -63573, -249772, 485790, 485737, 257897, 1344071, -158511, -1050808, -1560601, -1028140, -1044258>>
              [] hour = 22 -> <<-1883424, 663188, 185268, -422793, -889889, -1580945, -919720, 1847909, -2210792, 141811, 743637, 136132>>
              [] hour = 23 -> <<-316805, 768074, -1103328, 555545, 1430697, -1041374, -819833, 135940, 989573, 1339148, 680627, -669503>>)
         [] day = 2 ->
           (CASE hour = 0 -> <<-1114413, 242979, 398258, -1100552, 59790, 332237, 1045064, -990563, 556965, -1169276, -426586, -78277>>
              [] hour = 1 -> <<1517916, 3314304, 253546, 495291, 1007542, -1361656, 765663, -1241740, 1629112, 1443492, 501540, -806699>>
              [] hour = 2 -> <<1668025, 259688, 110244, 579543, -1712347, 428499, 996108, 339001, 145259, -953658, 643555, 200469>>
              [] hour = 3 -> <<9064, -563205, 856171, 1247184, 388146, 896749, 1326023, 1588161, 225650, -213328, -414946, 13747>>
              [] hour = 4 -> <<551966, 938182, -426742, 149858, -996580, 1263964, -391461, 357921, -719370, -298276, -685996, 1704967>>
              [] hour = 5 -> <<359364, -166445, -947642, -610300, 568705, 1665925, -1430889, -917047, -175788, -628267, -1659182, 19310>>
              [] hour = 6 -> <<751043, -1577111, 210960, 964673, 980327, -419871, 2304749, 555113, -811066, 984299, -1122588, 895269>>
              [] hour = 7 -> <<-1262054, 790543, -583562, 1132288, 740677, 447208, 58632, 1087016, -1803342, 432554, 413433, 562150>>
              [] hour = 8 -> <<826229, 3702458, 116783, 804500, 152368, 1572668, -2020810, 1697948, -683806, -2262241, -1078186, -174519>>
              [] hour = 9 -> <<194245, -45891, 816818, -35177, -63198, -2143516, 487344, 1010242, -420673, -1877084, -1336505, 1673562>>
              [] hour = 10 -> <<-606207, -664584, -819451, 680884, -587844, -869032, -1506363, -107799, 1000948, -147933, 882220, 175426>>
              [] hour = 11 -> <<147837, 178973, 34441, 1026205, 487853, -578111, 128620, -75965, 484932, 180317, 414578, -1477322>>
              [] hour = 12 -> <<379591, 1313612, -1350194, 1600933, 297073, -207749, -1804488, 1087597, -969550, -511191, 545904, -1025580>>
              [] hour = 13 -> <<-986833, -1151280, -111360, 588536, 403006, 407403, -344180, 140469, -690041, 1997675, 194727, -1954985>>
              [] hour = 14 -> <<-1069308, 1601303, -1366487, -437695, 403626, -1096624, 1066605, 1679083, -824739, 1129296, -891223, -997950>>
              [] hour = 15 -> <<245685, 237931, -596035, 842024, -1469182, -855666, -1077869, 758364, 803902, 666940, -1295600, 132768>>
              [] hour = 16 -> <<457654, -1616980, -821693, 645862, 703654, 255235, 542076, 324096, 149919, -109257, -871432, -245548>>
              [] hour = 17 -> <<-402915, 2317775, 260241, -10695, -231977, -115205, -272267, 544705, -29445, 811080, -695176, 350235>>
              [] hour = 18 -> <<877156, -1154259, 167770, 247067, -334747, -487161, -1854910, 1148821, -932924, -1240371, 657913, -1832275>>
              [] hour = 19 -> <<963271, 434219, 598090, -164001, -1217347, -1888763, 1456812, -471941, -516681, 1582163, -631402, -237960>>
              [] hour = 20 -> <<-236998, -137460, -1039442, -560214, 1285489, 761093, -2977125, -1958532, 333637, -112954, -374526, 1042739>>
              [] hour = 21 -> <<-1784259, 1199592, 131591, 548406, 253370, 846141, -250332, -542258, 781571, 175103, -1254288, 1349614>>
              [] hour = 22 -> <<1210765, 1441438, 79697, 350533, -381542, -972829, 65472, 176509, -662761, 1829695, -1615915, -815345>>
              [] hour = 23 -> <<-671371, 1291205, -256590, -324938, -885491, -764495, -1304620, 1015537, 608891, 990034, -662360, 2511917>>)
         [] day = 3 ->
           (CASE hour = 0 -> <<-981312, -2053814, -292110, 137119, 756341, -1017431, 590855, 1707852, -851925, -740166, -1702860, 240941>>
              [] hour = 1 -> <<857414, 766941, 833623, 1416147, 127442, 952772, -951617, -790907, 240866, -818022, 571703, 1375051>>
              [] hour = 2 -> <<403536, -737432, -748476, 1365367, -798136, 89317, -258895, 53021, 1096369, -538793, -1410393, 1451736>>
              [] hour = 3 -> <<223014, 725729, -19378, 777623, 1264738, 1366326, -273454, -352152, 394868, 207172, 565796, -710939>>
              [] hour = 4 -> <<-2324699, 450020, 781246, 643015, 1659443, 852229, -388333, 985426, -84935, 1255285, 237988, 453511>>
              [] hour = 5 -> <<227724, 54505, -1496573, 57740, -2272548, 497803, 991919, 2051103, 374076, -716496, -1589577, 1947770>>
              [] hour = 6 -> <<-1426270, 895523, -2306269, -51489, 683224, 325236, -41540, -824709, -906666, 1008629, 435730, -160588>>
              [] hour = 7 -> <<206827, -926702, 1022291, 1260974, -779851, 102021, 1048247, -641829, 2034577, 1510629, -278876, 978772>>
              [] hour = 8 -> <<1662196, -1244090, 619224, -144350, -216536, 710307, -477077, -1399752, -1422162, -19735, 628901, -23877>>
              [] hour = 9 -> <<-152595, -30796, 1289313, 530453, -745911, -288785, 1204689, -580302, -394736, -25064, -1064911, 902368>>
              [] hour = 10 -> <<-2189474, 1451372, -435158, -1256582, 282263, -1711224, 537350, 773624, -575910, -388895, 948745, -670745>>
              [] hour = 11 -> <<22502, 347617, 1559960, -503075, 34681, 1132007, -2556727, -268957, -1909620, -1840074, 1956970, 211280>>
              [] hour = 12 -> <<1483487, -241410, 540453, -431667, -546951, -74639, 128332, 1533269, -196828, 379839, -256923, 144868>>
              [] hour = 13 -> <<-1311177, 1091422, -520876, 41533, -214150, 984648, 521664, 12993, 175001, 343439, 756545, 506960>>
              [] hour = 14 -> <<1285207, 1618425, 614415, -1322609, 1747841, 2149910, -364100, -413999, -2058895, 779243, -1007859, 1829472>>
              [] hour = 15 -> <<-2477288, 72397, 674482, -402287, -795461, 249234, -527590, -343265, -39380, -557315, -228010, 786853>>
              [] hour = 16 -> <<-391036, 165935, -755778, 913268, -1287008, 956440, -3027048, -911176, -1589814, 1013753, 268524, -1312150>>
              [] hour = 17 -> <<-574732, 1336745, -67432, 550874, -1520974, -1519303, 555331, 2288543, -558950, 570384, -966776, 1228116>>
              [] hour = 18 -> <<-478847, -460391, -1918289, -442443, 157919, 1349106, -1204450, 950406, -374707, -320734, -982065, -1736960>>
              [] hour = 19 -> <<-1250877, 1586746, -1231933, -478033, 1061440, -2159638, 395985, -562004, 134640, 812867, -205514, -250335>>
              [] hour = 20 -> <<672605, 584455, -772926, -241140, -1397387, 1238333, -1264117, 133242, 1693089, 753832, -341322, -777690>>
              [] hour = 21 -> <<-674808, 872881, 296553, -46236, 2566869, -871714, -525561, -410014, 183312, 276291, -305164, 704611>>
              [] hour = 22 -> <<507286, -335806, -2488991, 752847, -992431, -699626, -194844, -1292102, -866960, 508, -417864, 238778>>
              [] hour = 23 -> <<-940648, -317943, -1148787, -374562, 197471, -335760, -1522736, -279958, 58190, 1043289, -129099, -498050>>)
         [] day = 4 ->
           (CASE hour = 0 -> <<-1257157, 1904930, -1034773, -1213046, -235373, -1906746, 989987, 99920, 407369, -1059747, -588053, 778920>>
              [] hour = 1 -> <<827113, 2760205, 1025267, -1963830, 17930, -430953, 1027786, -154561, 425778, -381292, 548456, 1402318>>
              [] hour = 2 -> <<-671450, -2095285, -1091268, 1505505, 165961, -350790, -1018342, 995049, 233879, -166480, -594952, -208778>>
              [] hour = 3 -> <<-373002, 519381, 1220892, -2011595, -1504712, -149936, 27270, -1604372, -674309, -455614, -497364, -518032>>
              [] hour = 4 -> <<-140283, 830035, 686235, 538731, 221271, -770385, -537664, 638842, 60559, 745657, 211749, 7537>>
              [] hour = 5 -> <<387897, -1593211, -212643, -641464, 791923, -725224, 178527, -485611, 417863, 660118, -268626, 43974>>
              [] hour = 6 -> <<114350, 711925, -391246, -25087, -492819, -1028147, 106618, 355824, -880860, 1503399, -820968, 672982>>
              [] hour = 7 -> <<301031, -1780131, -101348, -1650389, -183469, 598948, 1770854, 707832, -1604868, -429421, 1424579, 102740>>
              [] hour = 8 -> <<1689817, -804509, -637122, -1430942, -464089, 1177995, -1010014, 755237, 378728, 708729, -340076, -57615>>
              [] hour = 9 -> <<2058813, -1330547, 679723, 1441719, 380126, 1576268, -3051313, -388854, -1256192, -504338, -196211, 393356>>
              [] hour = 10 -> <<-946465, 783922, -1668451, 869563, -346707, -1873337, -1877944, -1898809, -1101634, 9357, 1212249, 676566>>
              [] hour = 11 -> <<-1446569, -2417589, -418621, -1546523, -297712, -810537, 2448324, -1851387, 186561, 1728664, -542610, -916709>>
              [] hour = 12 -> <<1547656, -2259928, -1856324, -1369932, 259543, 635313, -267193, 2050345, -342813, -137441, -440835, 1103920>>
              [] hour = 13 -> <<-114878, -518874, 1574486, 1182606, 900797, -1381491, -1182489, -344166, -359201, -527756, -316942, 563023>>
              [] hour = 14 -> <<-1105719, 163475, -481012, -565105, -361889, 669824, 210611, -857945, 268695, 76379, 360924, -316389>>
              [] hour = 15 -> <<957024, 342043, -1188857, -1325971, -1449187, 370890, -723407, -377432, -93906, 1213643, 2177734, -128632>>
              [] hour = 16 -> <<1989526, 540260, 1201583, -289191, -1254677, 479501, 1291636, -1574480, -66338, 214819, 594821, -1096151>>
              [] hour = 17 -> <<-565853, 928956, 1809956, 98971, 979478, 167605, 430381, -391984, -233231, -580671, 96218, 1104657>>
              [] hour = 18 -> <<187353, 654784, -646817, 716011, -3173982, -1435177, -343354, -1836576, 561971, 201392, -927371, 87780>>
              [] hour = 19 -> <<-1526863, -918208, -395110, -1622675, 1043107, -669601, 1020129, -154383, 305836, -922680, -314671, -429520>>
              [] hour = 20 -> <<230118, 1375121, -569781, -168808, 356745, 859298, -115373, -388043, -589091, 4767, 240255, -688800>>
              [] hour = 21 -> <<-309979, 759437, -26957, -576263, 708537, 713030, 612518, 667657, -397158, 204205, 314984, 121980>>
              [] hour = 22 -> <<-1758900, -18783, 351916, 495435, -298291, 32608, -1808827, -1496655, -2971000, -229096, 1626302, 1752625>>
              [] hour = 23 -> <<-1128610, 651996, 1260921, -303880, -1967058, 1425159, -357396, -391761, 1714496, 472650, 848133, 1608428>>)
         [] day = 5 ->
           (CASE hour = 0 -> <<-142772, -969332, 799359, 14893, 761882, 423142, -737805, 55375, -305224, -203047, -7044, 386552>>
              [] hour = 1 -> <<245234, -1237348, 672273, -1396325, 2260830, -722014, -16912, 1384392, -155547, -1226154, -1387635, 327301>>
              [] hour = 2 -> <<457412, 875115, 317493, -436834, 518243, 1487500, -756639, 3625287, -373021, 1299479, 1934844, 959147>>
              [] hour = 3 -> <<348510, 769209, 1382177, -2600177, 504119, -362984, -652769, 158697, 219111, 533279, -549759, 1164012>>
              [] hour = 4 -> <<-2063251, -942194, -1195340, 124914, -484498, 544239, -775648, 1297795, 750608, -509560, -1691990, -1190096>>
              [] hour = 5 -> <<-1551982, 1242465, 757526, -1271488, 1888032, -296322, -2258462, 1089552, 1306387, 7072, -898399, 1237639>>
              [] hour = 6 -> <<-505340, -17070, 471554, 306948, -459556, -1043297, 755306, -2213239, 332625, 271719, 528930, -366871>>
              [] hour = 7 -> <<222694, 797331, -1043517, 56646, 383894, -1259008, -945517, 1586747, 1042846, -741813, 726673, 412993>>
              [] hour = 8 -> <<1410978, 1147861, -2428607, -295461, 1383897, 1642949, -613312, -1229574, 261515, -638712, -11673, -1167142>>
              [] hour = 9 -> <<771601, 576378, 464718, -1095622, -1686122, -1275841, 501007, -1797598, 662498, 1779188, -625448, -182676>>
              [] hour = 10 -> <<989495, 920037, -614069, -170427, 127350, -260047, 585345, 337422, 1315434, -1701112, 1193544, 826354>>
              [] hour = 11 -> <<-124040, 426534, 986948, 311063, -237987, 292449, -686514, -1301407, -865227, -761064, 200944, 805445>>
              [] hour = 12 -> <<256467, 1468900, -76082, -630547, -713218, -887111, -290146, 1390606, -1455962, 569578, 6109, 859871>>
              [] hour = 13 -> <<-444911, 753343, -467831, 663535, -1922484, 528894, 782406, -1553416, 890992, -1091646, 1034709, 44267>>
              [] hour = 14 -> <<737450, 425493, -1143587, 1604850, 1275383, -960970, 627937, 525936, -612770, -973583, 1351031, -327631>>
              [] hour = 15 -> <<978322, 1976413, 559974, -810969, 1060375, -1297292, -830788, 3006799, -717620, 428515, -980263, -43264>>
              [] hour = 16 -> <<279476, -2570978, -578642, 739408, 944188, 413222, -872306, 469167, -419132, -700120, 70589, 2348598>>
              [] hour = 17 -> <<-832455, 1109991, 322909, -1416656, -844705, -103207, -406518, 327594, -926655, -950181, 1069575, 31921>>
              [] hour = 18 -> <<-787489, 62924, 1898596, -519770, -1427730, 996975, 2024895, 1318906, -1257741, -2006254, 1315448, -128824>>
              [] hour = 19 -> <<553794, -139715, 1725095, 115767, -275299, 180439, -1162927, 199235, -56453, -2086142, -1114861, -1230579>>
              [] hour = 20 -> <<-1548233, 377499, 1146462, 338704, -1469555, -1770518, 791282, -301620, -95146, -1294555, -2028261, 2214780>>
              [] hour = 21 -> <<-609984, -197733, -1151617, 1521271, -364880, -173157, 30368, -29009, 1399872, -1839809, 607621, -643251>>
              [] hour = 22 -> <<-432156, -642684, 399597, -1310814, -568385, 531024, -603211, -508953, 343753, 55323, -368821, 19355>>
              [] hour = 23 -> <<-920699, 820219, -1129454, -1643002, 385828, -1356228, -998740, -260503, 660925, -525812, -492051, -478171>>)
         [] day = 6 ->
           (CASE hour = 0 -> <<323530, -564274, 183337, 1299968, -283853, -432310, -993013, -821271, -1304692, -1164047, -647031, 267875>>
              [] hour = 1 -> <<415843, -499968, 250332, -1368092, 1994729, 2399079, -189295, 433429, 27897, 706708, -701020, -1587495>>
              [] hour = 2 -> <<736145, -1159585, 280707, -990769, -839657, 912094, 1540098, -223792, -490721, 229203, -614701, -1797984>>
              [] hour = 3 -> <<-89989, -2303899, 358838, -573093, 119724, -1539122, -819157, 495985, 1290579, 766081, 313252, -1182286>>
              [] hour = 4 -> <<498506, 60701, -387863, 1228395, -839547, 1684518, -717830, -747146, -170118, -1390054, -540832, 6323>>
              [] hour = 5 -> <<-1767016, -901819, -1462359, -512416, 1064282, -508129, -262242, 150140, -1184056, 151948, -593939, -720916>>
              [] hour = 6 -> <<-1784697, -706705, 958038, 1131448, -370319, -4883, -496040, -1173039, -1871476, 1630697, -1056946, 141139>>
              [] hour = 7 -> <<1481960, -447542, -226937, 206148, -412645, 196974, -387147, 1083126, 442847, -1224697, -1368842, -679016>>
              [] hour = 8 -> <<-644439, -770744, 895648, -748475, -482227, 117005, -2007930, 408668, 558728, 1377986, -997667, -479427>>
              [] hour = 9 -> <<196280, -387971, -1465292, 894190, -292057, 340418, -1078557, 950141, -353296, -721704, 783678, 1101026>>
              [] hour = 10 -> <<-934932, 991336, 1615590, 260710, -1407994, 568183, 1065070, -1016471, 1671648, -192427, -115265, 1098989>>
              [] hour = 11 -> <<213869, 1252892, -5551, 394835, 29702, 245272, 589581, 489944, -294852, 943266, -79692, 1208539>>
              [] hour = 12 -> <<624244, -81213, -723672, 49506, 1393748, 199038, 979914, -77054, -305376, -687813, -1932669, 319577>>
              [] hour = 13 -> <<42932, -45176, 784349, -979931, 1698973, -1459409, 253057, -1187723, -271335, 1156610, -1490618, 178210>>
              [] hour = 14 -> <<107120, 176579, 251646, 798582, 490430, 372823, 888059, 658398, -132705, -1232258, 788823, -349892>>
              [] hour = 15 -> <<1637786, -566227, -1211823, 1124775, -752184, -1504256, 1168291, -1462218, 1306102, -963808, 396937, 211932>>
              [] hour = 16 -> <<-1825644, -27108, -432114, 113574, 518704, 1564644, -250484, -112730, 2139794, 711339, 747918, -1542681>>
              [] hour = 17 -> <<-1410302, -566352, -201371, 475307, 2720897, -1266204, -424610, 613538, 255894, 1106549, -303734, -913302>>
              [] hour = 18 -> <<2073599, 423543, -1213375, -363148, -80922, -1512184, 751427, 126845, -391793, -680425, 1616822, -110222>>
              [] hour = 19 -> <<-808246, -2081538, -1100477, 655099, 1452253, -1203779, -2086578, -8820, -90053, 818632, -754608, 63516>>
              [] hour = 20 -> <<-1902130, -1281381, -592034, -490420, 485915, 1177145, -1466795, 1639037, -793380, -465459, 1083960, -2443315>>
              [] hour = 21 -> <<-1494073, -869458, 40784, 1043074, 1059517, -950996, 713691, -455152, 1454271, -310980, 1027371, -1060412>>
              [] hour = 22 -> <<745221, -1398008, 78579, -1648937, -172256, -816176, -1003245, 214830, 762425, 92690, 286937, 701076>>
              [] hour = 23 -> <<1199222, 999799, 384916, 1979400, -527271, 782043, -1163006, 2374654, -266942, 138239, 1362574, -211957>>)
         [] day = 7 ->
           (CASE hour = 0 -> <<-864328, -1875554, -294008, 2023187, 144653, 1709775, 804040, -475168, -1442697, -221415, 590310, -249761>>
              [] hour = 1 -> <<140817, 546088, -398475, -1490399, -369027, 529036, -869606, -1105612, -1053003, -286502, -178142, -111768>>
              [] hour = 2 -> <<-1328508, -28974, -690459, -1007760, -1915678, -1178994, -681747, 74483, 339812, -38075, 160804, -1201644>>
              [] hour = 3 -> <<729708, 747447, 615655, -564067, -151326, -533810, -1385270, -405115, -1612972, -1833719, 496023, 488627>>
              [] hour = 4 -> <<776376, -499008, -31501, 475565, -429098, -2092870, 2189037, 1190001, 1206676, 44870, -841568, 43220>>
              [] hour = 5 -> <<252875, -1403318, -504628, 532763, 1483092, 586847, -422682, -1301211, 2016119, 111112, 756661, 23788>>
              [] hour = 6 -> <<-1347269, 2164531, 662996, 1217182, -792732, -35159, 1360577, -358976, -725937, -1132729, -1363588, 822957>>
              [] hour = 7 -> <<-65550, -1808498, 1518549, 1272693, 1150295, -1855626, 99435, 1293190, -1042194, -807169, -245305, -2027324>>
              [] hour = 8 -> <<211279, 986986, 660372, 1491794, 90011, -34388, -192898, -705431, -1079755, -748476, -89779, -545843>>
              [] hour = 9 -> <<100928, 73157, 634358, -522026, -2078691, -969508, 1909027, 747665, -413651, -209977, -90967, -474893>>
              [] hour = 10 -> <<192435, 683972, 1217859, -365674, -293738, -334418, 27047, 1061768, -757995, 2206972, 554797, 1111104>>
              [] hour = 11 -> <<-903237, -375429, -524621, 47100, -2037524, 499827, -1681943, 382030, 1027699, -48313, -158987, -154379>>
              [] hour = 12 -> <<-204317, 283098, 933351, 675912, 1535663, 131573, -468660, -419995, -1186764, -331858, -531649, 1849004>>
              [] hour = 13 -> <<591000, 1866981, -1834883, 375796, 1105436, 403460, -379352, 253187, 186242, 218210, 352895, 1035362>>
              [] hour = 14 -> <<317171, 381934, 114483, 555214, -605467, 682332, -211464, 963127, -471801, 61712, -56729, -892063>>
              [] hour = 15 -> <<1163967, 492707, 158749, 1348223, -204787, 102038, 1223405, 2555874, 208555, 1736697, 298811, -669593>>
              [] hour = 16 -> <<627571, 1356651, 320838, 589527, -954031, -2140551, 351347, -1327482, 10609, -584771, 202469, 899039>>
              [] hour = 17 -> <<-1643345, -134358, -140326, 1340579, 63979, -818451, -582952, 1785176, -888365, 41367, 257858, -1148300>>
              [] hour = 18 -> <<-820892, -1972689, -910644, 646980, 207147, -1888613, 1423167, -1324993, -951221, 1593912, 461090, -75933>>
              [] hour = 19 -> <<1486651, -74152, 345921, -564917, -120212, -70341, 1096262, -624415, -199145, -2163554, -1707662, 687805>>
              [] hour = 20 -> <<-394383, -353458, 594629, -340131, 85009, -292181, -2019885, 592938, 1459014, 1152991, 39073, 237612>>
              [] hour = 21 -> <<357938, 1472179, 1158399, -373983, -166915, -237493, -614239, -656909, -178754, -2448442, 310249, -517854>>
              [] hour = 22 -> <<-1274919, -259398, -821465, 1118170, -1175733, -12713, 260358, -910141, -1304734, 292077, -479467, -1013207>>
              [] hour = 23 -> <<-1509835, 523702, 1406220, -600182, 444368, 1004787, 915602, -645563, 457974, 613000, 2447056, 161161>>)
         [] day = 8 ->
           (CASE hour = 0 -> <<987873, 769674, 609541, -996060, 267186, 1460190, -370514, 229938, -765732, 268777, 347181, 688205>>
              [] hour = 1 -> <<-375646, -405386, -540206, 275603, 184591, 2202889, -601899, 682199, -518191, -444500, 1060422, 422302>>
              [] hour = 2 -> <<528950, -1288225, 2530583, 2033068, -677316, -1284548, -682665, 246299, -888443, 283107, -622256, 2687930>>
              [] hour = 3 -> <<-209926, -428414, 1958771, 334766, 21631, -24987, 560556, -403796, 123601, -517442, -1292823, -299843>>
              [] hour = 4 -> <<174744, 1555408, 229419, -321837, 132922, 586404, -2169707, -395069, -2078429, -1682406, -703329, -116909>>
              [] hour = 5 -> <<54454, 133947, 1283732, 448197, 388912, -291639, 1895833, 1273988, -544036, -539212, 773676, 990459>>
              [] hour = 6 -> <<-284007, 1114538, -1122699, -124689, 1013201, -524210, 174447, 18955, -218153, -1779634, -279448, 207667>>
              [] hour = 7 -> <<232607, 777301, 948291, -298802, -167541, 1678905, 907793, 73996, -153641, 1086359, 1092351, -25111>>
              [] hour = 8 -> <<503371, 98382, 26385, 1874370, -1177538, 801139, -960765, -614162, 884644, -1215630, -856347, -1049459>>
              [] hour = 9 -> <<-523437, 350929, 1189356, -581607, 942250, -1134410, 2121648, -398627, -437830, 285143, 110357, -148372>>
              [] hour = 10 -> <<-1639112, 834340, 697499, -387459, -1143372, 249392, 1081308, -1709375, -1105906, 72197, -809221, -354996>>
              [] hour = 11 -> <<-118519, 740705, 742921, 942485, 866036, -631822, -2362413, 287932, 419621, 417159, -676257, 1853301>>
              [] hour = 12 -> <<-1653148, 772399, 593926, 883731, 1348460, 467450, 312965, -295226, 736122, 366852, 768637, -1128661>>
              [] hour = 13 -> <<-1503817, 45954, 501028, -1509402, -1004343, -352243, 273654, 302757, 958836, -168454, 407567, 1245615>>
              [] hour = 14 -> <<-269459, 2208398, -358175, 123275, -1840039, -80624, -516735, -620610, 288454, -1068055, 222770, -1939230>>
              [] hour = 15 -> <<-479790, 1326772, 131312, 593879, -880437, -1270823, 1354716, 995667, 840960, 17, 1145822, -406070>>
              [] hour = 16 -> <<675895, 643079, -866215, 1387218, 130149, 798783, -1454176, -1153122, -406727, 503464, 1136663, 371297>>
              [] hour = 17 -> <<-114459, 568642, -213658, 168868, 396221, -661332, 404140, -1406196, -791009, 650243, -625824, 476938>>
              [] hour = 18 -> <<225701, -187348, 1481879, 470676, -563843, -494766, 123132, -1448860, 1123998, -66506, -1670863, -963187>>
              [] hour = 19 -> <<1375436, 218184, 2110907, 19992, 452425, 1900972, 2076810, -912242, 856972, -1028629, -459510, -1707164>>
              [] hour = 20 -> <<562846, -996986, -766363, 1869189, 859709, -169247, -1759742, 302471, -2249037, -891228, 643132, 780603>>
              [] hour = 21 -> <<137838, 787390, 178845, -765927, 18392, 1683154, -51251, 291928, 531878, -1357948, -1005511, -1537634>>
              [] hour = 22 -> <<343614, -359384, -1218268, -1244310, 703359, 801799, 393893, 14781, 479772, 519, 334349, -416038>>
              [] hour = 23 -> <<-1016319, -751561, 230669, 1623544, -862889, -1114261, 680650, 685248, -737886, -609322, -624479, 279525>>)
         [] day = 9 ->
           (CASE hour = 0 -> <<2959409, -753955, 247167, -534368, 93893, 352776, 220264, -1038364, -1028679, 851616, 202898, 122363>>
              [] hour = 1 -> <<496158, -804222, 1104723, -873320, -1126172, -1051094, -209456, 2491997, -45050, 193431, 1407323, -460469>>
              [] hour = 2 -> <<-1482998, -723988, -480711, -1718522, -381304, -19339, 1875742, 654903, 3261, -630319, -844731, -1904981>>
              [] hour = 3 -> <<-274710, -2346803, -289307, 1475339, -520950, 268993, -999652, -1983070, 107443, -390424, 312729, -20273>>
              [] hour = 4 -> <<449378, -607294, 382902, 845660, -660936, -458612, 898829, 351425, -343779, -1634835, -400043, 1334056>>
              [] hour = 5 -> <<-559406, -303963, -1003981, -227999, -124717, 157094, -761259, -1213334, 1922414, 28387, -961098, -286502>>
              [] hour = 6 -> <<342094, 942021, 175391, -439368, 379672, -1467634, -1032611, 1098660, 90784, -168058, -728316, -1244331>>
              [] hour = 7 -> <<139725, -66823, 1581107, -931909, -96233, -453442, -981257, 1667693, 1228632, 32166, -1472158, 195296>>
              [] hour = 8 -> <<375144, -705612, -1673966, 1643613, -1452156, 944740, -772208, -500657, 874234, -1233198, -442066, -170935>>
              [] hour = 9 -> <<1029383, 866279, 18509, -1324511, 1055143, -516784, 169887, -1921945, -278700, 392009, -453645, 493694>>
              [] hour = 10 -> <<1165324, 1446208, -645951, -1600990, -2510011, -424756, -1700532, 347153, -2166552, 939728, -60498, -1682021>>
              [] hour = 11 -> <<153766, 445768, 432147, -135308, 482096, 387565, -463761, -43780, -1412834, 619052, -1405655, -316404>>
              [] hour = 12 -> <<-1291571, 782917, 19625, -1163951, 111619, -365092, 495774, -118336, -207437, -391797, -1782622, 300772>>
              [] hour = 13 -> <<562709, -1119762, 327750, 979434, 732507, 1116953, 742625, -536905, 2013616, -40439, -666679, 1349197>>
              [] hour = 14 -> <<-760227, 775677, -837431, 1091132, 1217775, -486158, 526677, 669934, -111107, 475440, -127819, -660090>>
              [] hour = 15 -> <<-993605, 261993, 518287, 805082, 472501, 676964, -334597, 1719340, -782731, 783086, -123402, -239692>>
              [] hour = 16 -> <<2051693, 573301, -1055945, 426302, -369720, 1893168, -722698, 136801, -439479, -499313, 775159, 1170625>>
              [] hour = 17 -> <<1283550, -50265, -491757, 604236, -313581, 1601880, -1281112, 510561, -1130632, -900211, -1493693, -1217572>>
              [] hour = 18 -> <<552095, -656209, -1011799, -1162672, -885229, -414383, 852642, 23767, -48546, -119525, 690189, -915700>>
              [] hour = 19 -> <<301278, -1093416, -1043539, 604215, 44002, -205093, -962854, 424628, 2107321, 539677, 552115, -92889>>
              [] hour = 20 -> <<1154632, -377156, 2872600, 259804, 76576, 1213203, -1058896, -645801, -683298, -193922, 1733717, -890298>>
              [] hour = 21 -> <<2431292, 972958, 1564218, 251007, -1447942, -1135354, 1320883, -272865, 387763, 330783, 1495504, 1319838>>
              [] hour = 22 -> <<386020, 160358, 1032794, -978448, -609690, -1212473, -828002, -1413026, 900802, -185519, 1811894, -242330>>
              [] hour = 23 -> <<345930, -399692, 788702, 651996, -252437, 388676, -669404, -474451, -923397, 909980, -861641, -1016339>>))
      [] seed = 4 ->
       (CASE day = 0 ->
           (CASE hour = 0 -> <<50562, 499951, -995909, 693599, -418302, -1584577, -647707, 598575, 332250, -1147477, 618670, -87987>>
              [] hour = 1 -> <<425072, 332253, -1156816, 350997, -606887, 1546979, 723342, 46136, -982992, 54433, 159893, -1208948>>
              [] hour = 2 -> <<2223360, 394295, 1692358, -1112812, 1635748, -1360966, -651226, 542451, 48006, -2358074, -1105584, 837836>>
              [] hour = 3 -> <<2087871, 914841, -276203, 796512, -1143799, 509920, -1347460, -9360, -130705, 802087, -302964, 1202003>>
              [] hour = 4 -> <<-196745, 836529, 786602, -1840876, 37547, 35928, -778740, 179411, -1455534, 556185, 509779, 300446>>
              [] hour = 5 -> <<2476584, 352343, 67471, -732265, 297141, -961777, 1271819, -647645, 158470, 1990083, 1164188, 242660>>
              [] hour = 6 -> <<1379920, -54559, 795234, 19090, -905438, 430271, 934650, -346102, -1097122, -528196, -2379775, -607684>>
              [] hour = 7 -> <<-1075290, 2022405, -564875, -1542929, 870842, -175211, 48603, 188646, 209313, -374445, 954699, 523248>>
              [] hour = 8 -> <<-495819, -171465, -944369, 280865, 738247, 650753, 614741, -126569, 1578874, -207182, 30067, -336180>>
              [] hour = 9 -> <<81264, -240524, 2032179, 425847, -1682965, -433886, -1416228, 879899, 1374593, -451043, 613533, -210157>>
              [] hour = 10 -> <<408058, 1732399, -349448, -1233137, 718274, 516560, 673801, 1026455, -681148, -1966015, 1040906, -408650>>
              [] hour = 11 -> <<-1207400, -1168290, 1128373, 180833, 302902, 850387, -676901, -1125115, -852951, -1104575, -291096, -890976>>
              [] hour = 12 -> <<38635, -480849, -79979, 649790, 1401277, 1555938, 114922, 212370, -508380, 1005982, 1531791, -593602>>
              [] hour = 13 -> <<764106, -329567, -171115, 184285, -401177, 895104, -1495852, -695397, -119411, -1044824, 360638, -1514904>>
              [] hour = 14 -> <<55178, -1440265, -145247, 508073, 2203564, 1077634, 1617241, 67972, 2115736, -241259, -252198, -1282083>>
              [] hour = 15 -> <<222252, 1053600, -633858, -370602, -463545, -331453, -590383, -1350040, 1380968, -1971753, -927082, 343741>>
              [] hour = 16 -> <<1011562, -208601, -283246, 49477, -261312, 876742, -482879, -985418, -472663, 96268, 1229213, 1599878>>
              [] hour = 17 -> <<-399414, -1464184, -1383866, 2125322, -402870, 457906, 1917285, -680116, -194574, -580595, -1095916, 799756>>
              [] hour = 18 -> <<1065700, -1873738, 981711, -235967, 183626, 197869, -1306539, -310871, -990913, 1915252, 2185848, 84033>>
              [] hour = 19 -> <<-1178956, 1156056, -190002, 1745445, 1968719, 1672906, -395259, -998075, -663050, -96345, -923807, 1193369>>
              [] hour = 20 -> <<657464, -33965, -400393, 649314, 1378420, -1929795, 233874, -300465, -744230, -341256, 134517, 1869566>>
              [] hour = 21 -> <<57057, -429767, -1227190, 773999, -751871, -113745, 713087, 52371, -386229, -172720, 898349, -19636>>
              [] hour = 22 -> <<242673, 422848, -334539, 327939, -276809, 1133843, 501810, -1730338, -207354, 1109175, -212866, -422517>>
              [] hour = 23 -> <<993684, -1082626, 65035, 590163, 851928, -1033350, -1246212, 1494557, -778422, -89884, 2431224, -465249>>)
         [] day = 1 ->
           (CASE hour = 0 -> <<-2202065, 2786804, 1012579, 358791, 2777135, -75266, 1445933, 12460, -275645, 632514, 884388, 1282367>>
              [] hour = 1 -> <<1194516, -498721, -80740, 1937871, 608837, 97539, 1347429, 1400161, 1289979, -546185, -384787, 752134>>
              [] hour = 2 -> <<1192365, -1195062, -455024, -229690, 1007247, -1083003, 2704963, 90054, 620083, 2229865, 629172, 755142>>
              [] hour = 3 -> <<-171918, 475297, -1049487, -69546, 44121, -982971, 1013550, 459582, -1852935, 797023, -917741, 590089>>
              [] hour = 4 -> <<-793412, -349977, 427472, 1947954, -1502267, -337095, -332111, 1102463, -235725, 425883, 1341760, 775468>>
              [] hour = 5 -> <<-406681, -423056, -256538, 165360, -846809, -43945, 586833, -457318, -467233, 295363, 809104, -1329623>>
              [] hour = 6 -> <<-975751, 1292517, -15102, -1092172, 127149, 1589286, -610571, -953657, -243865, 1597094, -651840, 533653>>
              [] hour = 7 -> <<1007989, 622222, -339429, 652126, 168853, 812218, 392561, 143843, -1730223, 645416, -113502, -2071417>>
              [] hour = 8 -> <<-42522, 296305, -118049, -2436709, -723081, -961614, -316300, -2292913, 282207, 533567, 574613, -52982>>
              [] hour = 9 -> <<-97790, 1006150, 454323, -414474, 300600, 695093, 1200509, 471661, -776413, -482443, 225388, 311698>>
              [] hour = 10 -> <<1021038, -1863831, -703702, -1135040, 1083365, 773991, 340763, 814101, -553373, 533735, 73822, 106149>>
              [] hour = 11 -> <<-109933, 961853, 1070626, -1405284, -509556, 94771, 581847, -1585301, -905739, -295575, 1746425, -851661>>
              [] hour = 12 -> <<-379836, -21907, -94074, 161854, -20894, -179186, 288746, 280748, 382281, 404693, -1149649, 181357>>
              [] hour = 13 -> <<158871, 782976, 693484, 1547685, -780654, -120373, 224197, -613945, -255828, -354276, -460947, 2269572>>
              [] hour = 14 -> <<-62206, 1474285, -832723, 294198, -611403, 352258, 1669729, 1945303, 827063, 475246, 29320, 411114>>
              [] hour = 15 -> <<1387207, -1579824, -273972, -933043, 1026084, -1196881, 858741, -1110110, -1033815, 1515387, 1039504, -855929>>
              [] hour = 16 -> <<-1687279, -900396, 613470, 965, -900781, 561836, 1387026, -1086936, -51750, -766654, 1109381, 138516>>
              [] hour = 17 -> <<-618986, -1604513, 713975, -255604, 159448, -156073, 424877, -1692173, -784362, 356518, 1815853, 338253>>
              [] hour = 18 -> <<-49426, -609668, -639926, -194331, -760041, 145930, 34247, 1995660, -67127, 1120974, -391800, 970521>>
              [] hour = 19 -> <<2444823, -533854, -1110426, 1091037, 95525, -216535, 483159, 330506, 1271156, 459119, -519176, -1051888>>
              [] hour = 20 -> <<-1662660, -1022542, 1140979, -1379698, 97285, 1259162, 624984, 1557611, 772861, 1593241, -527355, -778922>>
              [] hour = 21 -> <<1978135, 383826, 130480, -520682, 1627694, 521832, 535368, -599478, 124036, -383230, -60024, 357580>>
              [] hour = 22 -> <<-467436, -796743, 817899, -969856, 1420002, 1554473, -1344688, 1632338, -780585, 1336197, -538414, 792575>>
              [] hour = 23 -> <<-1003974, 665989, 114333, 1605861, 783892, -850656, 351392, -632505, 220108, 1564626, 1597923, 204728>>)
         [] day = 2 ->
           (CASE hour = 0 -> <<-764580, 118979, 2107508, -86280, -1401097, -1331143, -1140773, 1115285, -296196, -697202, 391141, 999342>>
              [] hour = 1 -> <<-109299, -756386, 249793, 849631, -1603413, -1353353, 2016347, 466200, 395608, -1346985, -941101, -224818>>
              [] hour = 2 -> <<1277523, 125685, -1575634, 1561665, 1607132, 900137, -1059838, -610047, -236211, 155835, 1812287, -1312873>>
              [] hour = 3 -> <<-680357, 10834, -542094, -485031, -1453727, 57353, -309462, 186204, 927218, -254809, -114034, 273577>>
              [] hour = 4 -> <<-438573, 204382, -1724424, -846128, 513403, 203897, 819067, -1314747, -524472, -75142, -92244, -216889>>
              [] hour = 5 -> <<1407401, -455212, -317190, 504566, 467659, 131388, 1643989, 559324, -232243, -954226, 1211331, -617267>>
              [] hour = 6 -> <<383850, -521931, 2083679, 718059, -1741815, 281687, -1368963, -560598, 792470, -1284608, 318852, -80982>>
              [] hour = 7 -> <<736672, -969906, 602204, -366632, 1006403, 30159, 636775, 1312612, 1067552, -45952, 681188, -18226>>
              [] hour = 8 -> <<402158, 1586045, -869659, -1192985, 451947, -581261, 1194263, 823057, 595467, -42687, -484075, -896940>>
              [] hour = 9 -> <<-570812, -56014, -971712, 983865, 602400, -1321919, -2695147, 1062762, -1227707, -2883218, -1665692, 182586>>
              [] hour = 10 -> <<1319388, 899195, 1440750, 1750142, 1839401, -954541, -195478, -621187, 53857, -348164, 261947, 1815221>>
              [] hour = 11 -> <<-701960, 735672, -962539, -1281421, 1005558, -135736, 70720, 1437316, -1318637, 76367, 1455653, -1020919>>
              [] hour = 12 -> <<259252, 923151, 924850, 672132, 972265, 484372, 785415, 386909, -889042, 117637, -104291, 1132830>>
              [] hour = 13 -> <<511963, 520978, 196160, 664092, -528526, 287424, -664483, -333420, -1092027, 2214999, 614307, -929282>>
              [] hour = 14 -> <<-353661, 351423, -426479, 748051, 451227, 1148198, -2787909, 760696, 245938, 1007118, -544266, -714775>>
              [] hour = 15 -> <<-1110293, 478528, 172881, -1672200, -547967, -14632, -1171791, -355401, -94393, -555885, -1601678, 1143734>>
              [] hour = 16 -> <<253338, 349844, -562575, 181293, -663815, -112603, 143621, 586374, -571501, -754083, 1244261, -1363036>>
              [] hour = 17 -> <<201062, -97907, 685445, -417728, -1012063, 123785, -1331206, -1036543, -19839, 120096, -1439132, 1253288>>
              [] hour = 18 -> <<-36824, 1226904, 1097134, 59433, -394498, -1393051, 993022, 1530024, 169555, 64334, -884412, -994630>>
              [] hour = 19 -> <<-99215, 1209603, -261854, 875715, 403304, -97538, -811714, -354701, -1170130, 855629, 511675, -943398>>
              [] hour = 20 -> <<-650586, -1278559, 169986, 612850, -860155, -410123, 395154, -1608102, 255678, 1573532, 1631658, -102287>>
              [] hour = 21 -> <<-17795, 769615, 693948, 1486238, 291104, 382156, 378223, 1721243, -859128, 1337296, 332560, 390552>>
              [] hour = 22 -> <<-704457, 75524, -759352, -2425453, 352380, -1197688, 170377, -1161567, -240938, -276121, -1575458, 128949>>
              [] hour = 23 -> <<-468699, -2223520, 1898574, 598205, 470898, 152068, 944511, -359223, 828976, 1049862, -369233, 166291>>)
         [] day = 3 ->
           (CASE hour = 0 -> <<270553, -1324693, 471681, 55287, 1319017, 279131, -741688, 237733, -398045, -2199830, -112996, -1168411>>
              [] hour = 1 -> <<1326541, 391032, 932960, 421418, -125872, 746705, -1432723, 843964, -63653, -1874549, -97043, 647960>>
              [] hour = 2 -> <<-405109, 1408172, 1321061, -527784, -682314, -153580, -399219, 768587, 1135120, 709233, 738520, 15748>>
              [] hour = 3 -> <<-57051, -605274, 2360360, 969503, 653609, -576830, -1417885, -673102, -356619, -289481, 692044, -313066>>
              [] hour = 4 -> <<691380, 549508, 738577, -44022, 830062, 214321, 254908, -94496, -57410, 287152, 730488, -631088>>
              [] hour = 5 -> <<-227661, 117995, 1160557, 77630, 695739, 971493, 97113, 1606885, -883106, -1262441, -1054089, -750859>>
              [] hour = 6 -> <<-513196, -213859, 411020, -409696, -478567, 623201, -122806, 268379, -368932, -1223741, -12067, -77298>>
              [] hour = 7 -> <<403708, 39158, -773915, 1488229, -1182503, -1821984, -625312, -511988, 502506, -559717, 5645, 237999>>
              [] hour = 8 -> <<681258, -1601361, 235866, -1214738, 1091393, -757822, -684916, 503695, -33990, -102863, 686242, -494307>>
              [] hour = 9 -> <<-609646, 996474, -548026, 177753, -1213847, -27078, -317943, 374969, 2193498, -1901039, -965589, -327860>>
              [] hour = 10 -> <<134677, -1442626, -49428, -823783, 64832, -932543, 2754803, 207261, 698194, -2304910, -804489, -167453>>
              [] hour = 11 -> <<1680979, -828529, 369385, -894120, -130311, -1888873, -1894296, -764133, 824820, 834604, -193972, -1271027>>
              [] hour = 12 -> <<1109214, -353684, -910170, -390876, -259434, 1695604, -24735, -529233, -451172, -1552524, 1229659, -960004>>
              [] hour = 13 -> <<113799, -982567, -789587, -2167997, 73518, 2195224, 1787693, 409266, 1406773, -772717, -1134585, 1152797>>
              [] hour = 14 -> <<-662964, 2121610, 1393419, -1133726, -359738, -354053, 763198, -379578, -30494, -1508671, 1612013, 880939>>
              [] hour = 15 -> <<74886, -1593440, 161531, 2983269, 410566, 1237254, -2147703, -303513, -233078, 1081493, -982443, 846351>>
              [] hour = 16 -> <<1085436, 90482, -175816, 447219, -1033284, -1615978, -1721776, 139112, -314588, -168691, -595940, -142477>>
              [] hour = 17 -> <<1820420, -356180, -959908, -1275166, -1013311, 499880, -281560, -454018, -276162, -1504347, -969825, -477277>>
              [] hour = 18 -> <<-489902, 174137, 808408, -748698, 231700, 301283, -685924, 459379, 888527, -1701743, 335140, 327574>>
              [] hour = 19 -> <<234934, -1603796, 920820, -215432, -887296, -1646336, 339953, -253204, -1446482, 1556578, -1307753, 593135>>
              [] hour = 20 -> <<-1035002, -264225, 600029, -316764, 486385, -24530, 1465270, 698193, 472566, -730797, -419349, 203411>>
              [] hour = 21 -> <<1701117, 1508304, 193591, 1182058, 179394, 255976, 100505, -265162, 547936, 3134038, -235824, 1198231>>
              [] hour = 22 -> <<942013, 100644, 825527, -382204, 197810, 1509668, 1637281, 43096, -112861, -1268570, 805363, -496132>>
              [] hour = 23 -> <<-806294, 266422, 6861, -1399697, 1212061, -1654907, -1625844, 949207, -303319, -1725119, 1017918, 870346>>)
         [] day = 4 ->
           (CASE hour = 0 -> <<-213630, -107011, 160132, 792244, -161092, -1142374, -130100, -546209, -1664893, -537299, -1093607, 65110>>
              [] hour = 1 -> <<1155847, 453228, 2786302, 411098, 117854, -939059, 830446, 331378, -1671050, -678116, 620815, -485227>>
              [] hour = 2 -> <<393186, 196934, 2044769, -1509498, -186802, -1359300, -912757, 1944644, 920073, 592800, -62485, 29942>>
              [] hour = 3 -> <<2041915, -1042554, 1296164, 1116829, -910415, 240563, -699000, 60944, 898824, 316919, 1256606, 780973>>
              [] hour = 4 -> <<-2231399, 841242, -1264415, -2931917, -324514, -517006, 2104641, 1060566, 886092, 85623, 939602, -632201>>
              [] hour = 5 -> <<1153340, -430913, -129095, 317535, -685159, 3021250, 246058, -383472, -910562, -624656, -16222, 583365>>
              [] hour = 6 -> <<-1465505, -438269, 1863992, 346726, 49249, -354868, -197779, 176584, 1438425, 1391364, -512308, -847184>>
              [] hour = 7 -> <<528050, -538136, 1014149, 1152018, -720220, -2094871, -1370065, -94237, -1185791, 315329, 208861, 40027>>
              [] hour = 8 -> <<-154281, -705635, 593595, -1936534, 432119, 2304695, 1296084, 10184, -285523, 388908, -138658, 1660021>>
              [] hour = 9 -> <<-566850, -187227, -1193124, 583492, -1591039, 820319, 544074, -1283147, 404850, -264075, -552198, -1344156>>
              [] hour = 10 -> <<-1635864, -1462627, -1693004, 27900, -1027211, 2111255, 357469, 1140834, -697877, 1554916, -450383, 985033>>
              [] hour = 11 -> <<341627, 701046, -1169363, -951823, 935504, 449425, -594859, 587991, 93274, -587134, 2042757, -2302999>>
              [] hour = 12 -> <<-291683, 863477, 413408, 1969594, 586901, 510923, -635895, 1627729, -601433, -347919, -348846, 642950>>
              [] hour = 13 -> <<-588755, -64685, -514707, -1751470, -679769, 2055854, -395077, 168606, 2588555, -780549, 710607, 1217458>>
              [] hour = 14 -> <<-954253, 1555972, 903421, -1193957, 75434, -1219559, 2812875, 2128891, 21047, -677724, 452458, -1142716>>
              [] hour = 15 -> <<-239054, -1115382, -257366, 418493, 328582, 728405, -507598, 881946, 94230, 356010, 1503575, 44905>>
              [] hour = 16 -> <<-963477, 688747, -1032997, 87194, -50084, -2101956, -1433711, -925675, 342494, 907029, 72184, 2327493>>
              [] hour = 17 -> <<819825, -1542910, 636562, -1000569, -786602, -286159, -239249, 337048, 763336, 1111411, -559910, 94708>>
              [] hour = 18 -> <<1179655, -1099950, 1009000, 736705, -353852, 1220689, 418958, 718341, 1604877, -83665, -1126611, -449552>>
              [] hour = 19 -> <<-1084951, 1013514, -368798, -439561, -635506, 1107868, 300575, 769158, 229304, -740795, -920560, 1196278>>
              [] hour = 20 -> <<-289910, 668153, -1147747, -308738, -571023, -868542, 553495, 853021, -270716, 2081606, -42716, -1625187>>
              [] hour = 21 -> <<504539, -1305122, -396906, 254183, 1136762, 543926, -734832, 1265735, 240256, 1268301, 1297321, 7169>>
              [] hour = 22 -> <<-731039, 688961, 61604, -82792, 131229, -859371, -1027714, -540285, 142087, -325145, 613716, 726359>>
              [] hour = 23 -> <<414174, -1019875, -1475736, -988841, -1194639, 796656, 768003, -1664257, -437783, -173541, -902188, -333769>>)
         [] day = 5 ->
           (CASE hour = 0 -> <<-885863, -463584, -39300, 311008, -836424, 681358, -881753, -393773, -242386, -960679, 419152, -694791>>
              [] hour = 1 -> <<-970034, 1624653, -306807, -455376, -2332099, -202936, 1479974, -398567, -351036, 729653, 815726, 1131280>>
              [] hour = 2 -> <<652635, -274273, -731941, 543439, 499307, 478828, -685235, -502864, 1512038, -397506, 595346, -3990>>
              [] hour = 3 -> <<-1694615, 541229, -1056883, 1589663, -402134, -662022, -218871, -78771, -439081, -375630, 1028348, 120725>>
              [] hour = 4 -> <<714198, 60922, 580786, -667073, 1508228, -924149, -1748204, -1374866, -1020072, -316948, 1651846, -1261030>>
              [] hour = 5 -> <<666187, -970080, 1300794, 526042, 1798688, -301140, 749572, 822529, -457327, -122786, -662555, -816026>>
              [] hour = 6 -> <<-645655, -1209197, 784258, -148602, -940810, -21579, 248913, -392026, 985482, -295840, 86432, 2124177>>
              [] hour = 7 -> <<-601854, -16766, 233696, -1291129, -470804, 731041, 1557803, -731094, 422079, -330042, -487532, -1250628>>
              [] hour = 8 -> <<347222, -2128429, 591438, 186239, 254892, -256277, -1335267, -1594297, 71045, 469505, 121676, -961727>>
              [] hour = 9 -> <<834792, 2267531, -462001, -997509, -423168, 1742286, -841140, -518075, -198220, -331515, 647305, -484959>>
              [] hour = 10 -> <<-1231632, 131921, 6828, 1973069, 1193614, 1784344, 45489, 408918, 481821, 4966, -1603150, 568155>>
              [] hour = 11 -> <<208718, 1644716, 1079781, -505533, 358800, -1092766, 1181464, -178984, -1324489, -2173632, 782555, 596942>>
              [] hour = 12 -> <<-931103, 2301749, -593432, 1580072, -719070, 234789, -576166, 2075708, 978923, 259436, 383197, 151624>>
              [] hour = 13 -> <<194985, -1362675, 438956, 1380008, -706807, -1305725, -1411298, -974884, 971777, 424397, -1351421, 1411431>>
              [] hour = 14 -> <<-365174, 621086, -357152, -1058196, 129692, -407684, 225792, 35027, -1199593, 434013, -450725, 476866>>
              [] hour = 15 -> <<880715, 458793, 904661, 1694931, -324439, -657088, -1057964, 1007814, -900579, 627015, 1419978, -875435>>
              [] hour = 16 -> <<1435272, -1016170, 724531, 13194, -1541918, -70860, 1521055, -200217, -1232857, 931887, 939232, -1127414>>
              [] hour = 17 -> <<110901, -1323255, -1466001, 692365, 726027, 1542963, 748639, -215606, 1102533, -886705, -432175, 108951>>
              [] hour = 18 -> <<-470388, -185642, -847309, 920561, 1466099, 1122452, 1890633, 980510, 828345, -1315596, 176848, -1457026>>
              [] hour = 19 -> <<1088989, 215365, -113994, -413647, -678580, -103480, -316150, 344147, -1290866, -446688, 1490014, -1982017>>
              [] hour = 20 -> <<-466400, -1278575, 367590, 732876, -392950, -736509, -274709, 905622, -785934, -295602, 1068021, -1071887>>
              [] hour = 21 -> <<-1323445, 693373, 1284896, 743456, 2321797, -1032373, -613868, 395327, -2290531, -501230, 2043848, 1250261>>
              [] hour = 22 -> <<-1052555, 2178918, 1507983, 271977, -543166, 721206, 1443414, 120342, -794172, 554492, 435828, -1495050>>
              [] hour = 23 -> <<-1379018, -1002761, 754129, -1181395, -246313, 250672, -1017264, -1040525, -886675, -316580, -1003246, 1783740>>)
         [] day = 6 ->
           (CASE hour = 0 -> <<466000, 1011515, -1057627, -1050259, -1269062, -996908, 601681, 1106630, 1062891, 830398, -2141197, -474394>>
              [] hour = 1 -> <<340339, 698119, -222978, 319489, -135391, -238732, 505844, -858783, -645571, 290529, 238430, 32284>>
              [] hour = 2 -> <<799676, -558961, 223652, 1092015, -726142, -396628, 1262807, -346323, 649879, -862297, -687288, -1258165>>
              [] hour = 3 -> <<-1364929, 1113454, -123943, -687013, 907619, 191164, 415141, 97361, 771893, -1424137, -1487335, -436537>>
              [] hour = 4 -> <<90268, 10930, -691917, 447859, 277133, -111959, -147812, 1225239, -282931, -1278266, -1116513, 966133>>
              [] hour = 5 -> <<-279072, 251704, 361651, -29815, -750818, -129268, 632172, -927900, 10685, 43130, -1249657, -320675>>
              [] hour = 6 -> <<372910, 37837, -844930, 1268527, -613113, 804478, 531903, 39725, 1363923, 2441990, 960067, 533016>>
              [] hour = 7 -> <<273067, 120261, -1385727, 821974, -787955, -2386969, 102174, -364152, -1452474, 801569, 212562, 1088915>>
              [] hour = 8 -> <<-364141, -310033, 308796, 944929, 205077, 1687118, -331329, -280971, -634921, -802130, -1178121, -1431243>>
              [] hour = 9 -> <<-365230, 459951, 1566816, -13305, -1654806, 825401, -802628, 755713, 195110, -505985, -363209, -538947>>
              [] hour = 10 -> <<642631, -730949, -295307, -608873, -625098, 739121, 1197336, -334449, 164896, 964069, 788545, -488494>>
              [] hour = 11 -> <<826846, 101137, -1257816, -375942, -939905, 555330, 749659, 953540, -217685, -524349, -278153, 43666>>
              [] hour = 12 -> <<-677313, 348838, 922560, -1742645, 847506, 857437, -1247264, 4216318, 863604, 328529, -1535267, 191705>>
              [] hour = 13 -> <<58232, 531755, -476866, -1034208, -1103794, 228831, -765329, 257944, 1620192, -1643293, -278471, 2155386>>
              [] hour = 14 -> <<446561, 1752375, 153614, 1570713, 1037568, 1122166, -1142044, 1374292, 67969, -451925, 824745, -562864>>
              [] hour = 15 -> <<-1136131, 109563, 1049869, -342364, 643590, 1413999, -26917, -98188, -702394, -568289, -105321, -2501371>>
              [] hour = 16 -> <<179527, 1815112, 105904, 38307, -680094, 645086, -320623, 1859372, 478925, 586745, 374636, -394767>>
              [] hour = 17 -> <<-2552561, -454133, 706748, -1933564, 445587, 430758, 582450, 189638, 248455, -368648, 1164011, -1376073>>
              [] hour = 18 -> <<-1145316, -987146, -918219, 685543, -278261, 835718, -1313303, -462459, -810470, 41073, 189476, 208759>>
              [] hour = 19 -> <<-679096, 1250602, -347916, 794922, 1689152, 1324249, -1307711, 1744411, -191045, 675090, 110179, -9789>>
              [] hour = 20 -> <<82199, 512612, 848321, -945930, -1698886, -474368, -1366587, -970725, 1130464, 572284, -808630, -674064>>
              [] hour = 21 -> <<-603249, -495887, -272669, 66314, 895177, -279631, -1871796, -12543, -231108, -558176, 760781, -1958141>>
              [] hour = 22 -> <<-1185417, -869431, 1504871, -990989, -482947, 358258, 32320, -2256427, 29539, -585908, 308234, 808108>>
              [] hour = 23 -> <<134052, -777152, -2509752, 156162, 469941, 208255, -1686744, -799654, -1793591, 40181, -849261, 222380>>)
         [] day = 7 ->
           (CASE hour = 0 -> <<-683954, -1488976, -1435819, 540828, 522065, -516799, -1527961, -970322, 318903, -551768, -980833, 796128>>
              [] hour = 1 -> <<148715, -988977, -1639230, 1462937, 516526, -976362, 139791, -357993, -1539324, -146815, -524458, 111106>>
              [] hour = 2 -> <<-1004391, 247116, 105662, 563872, -683791, 1252636, -206795, 2148883, 263733, 18859, -758970, 1034904>>
              [] hour = 3 -> <<1832354, 527749, -255647, 90755, 1452747, -390789, 56727, -541809, 613325, 366589, 361927, 247856>>
              [] hour = 4 -> <<-286586, 376821, -285580, -1597151, 806794, -933133, 859913, 325488, 726635, -151756, -2012721, -220333>>
              [] hour = 5 -> <<-1524938, 1058189, 524565, -1906679, 583413, -108429, -2483565, -724250, -601591, 317345, 67496, -2041732>>
              [] hour = 6 -> <<888394, -722464, 362258, -838419, 719746, -61891, -1116953, -1226313, 611490, 471507, -504073, 541070>>
              [] hour = 7 -> <<1375106, -182116, -1332438, 1198742, -555554, -206794, -1485016, 514575, 304208, -653161, 300644, -390210>>
              [] hour = 8 -> <<-660149, -1641604, 927557, 138763, 1661668, 1191822, -410023, 630599, -851558, 124506, 1665384, 253334>>
              [] hour = 9 -> <<456323, -968218, -244275, -192227, 559720, -852420, -686110, 1895297, 1721500, 984880, -458306, -697804>>
              [] hour = 10 -> <<-245664, 1372046, 853454, 790182, 598365, 1223717, -191505, 668453, -1497047, -1154290, -397431, 624502>>
              [] hour = 11 -> <<-354890, 758097, 654814, 850109, -386427, 896548, -231857, 401043, -2354325, 595822, 1927, 723872>>
              [] hour = 12 -> <<-85664, 697196, 745269, -681094, -220953, -2206750, 127518, -219807, 1189809, 303076, -316140, -1281979>>
              [] hour = 13 -> <<696962, -331275, -23906, -232854, -602645, 382811, 1190765, -671689, 126693, 454171, -389253, 1032367>>
              [] hour = 14 -> <<628918, 146628, -120861, -614431, -1026123, 684407, -302240, 608152, -1164538, -480980, 1826730, 1109575>>
              [] hour = 15 -> <<158930, 1035938, 560358, 1028875, -344184, -2138178, -395047, -3190, -76607, 1173466, -643413, 234828>>
              [] hour = 16 -> <<-1179223, 1032882, -1151964, 1446645, 755712, -1335902, 690726, 1797683, -161895, 829542, 10426, 399871>>
              [] hour = 17 -> <<875914, 1685120, 2577249, -1230766, -853811, -136676, 375687, -588029, 1386620, -1124875, -1634726, 288186>>
              [] hour = 18 -> <<-1769993, 469448, -64286, -1668929, -571300, 391000, 1050063, 874911, -482512, -31131, -995177, 2009703>>
              [] hour = 19 -> <<-391765, 831746, 1063187, -892863, 599149, 963836, 1419924, 781616, 1872555, 1203507, -559445, 602695>>
              [] hour = 20 -> <<-1111321, -1955794, 1858702, 221092, -266868, 287499, 816440, -1434522, 1169522, 294902, 467610, 932522>>
              [] hour = 21 -> <<287556, -684495, -931966, 1513563, 391237, -383350, -645978, 614438, 1483413, 725873, -49585, -304470>>
              [] hour = 22 -> <<2230887, -2696229, -612837, -314731, -1040623, 115584, 1410271, 283515, -1585627, -1420784, -201590, 686795>>
              [] hour = 23 -> <<863479, -817278, 625512, -615970, -2023701, 473724, -232149, 1127837, -1299956, 240828, 88467, -632298>>)
         [] day = 8 ->
           (CASE hour = 0 -> <<-1374106, 541943, -116618, 1484005, -918320, 955796, -2137063, 1009411, -727779, 175841, 408189, 337548>>
              [] hour = 1 -> <<-990421, 608518, 509456, 34204, 255871, -947994, -121533, -10425, -1501873, -489100, 691318, -125184>>
              [] hour = 2 -> <<34086, -1245604, 857437, -638821, -345777, -1254591, 344451, -192959, -1126696, 825646, 24178, -256816>>
              [] hour = 3 -> <<1025520, -437988, -761399, 2013899, 99538, 1136768, 834768, -1549166, -264617, 45303, -600043, 259363>>
              [] hour = 4 -> <<1164137, -557971, -37846, -111151, 54283, -532588, 726004, -1426316, -890365, -1187465, 188986, 788859>>
              [] hour = 5 -> <<944964, 1138260, -1249250, -55282, 851365, -127098, 580508, 671837, -79584, -592672, -453046, 1392495>>
              [] hour = 6 -> <<179898, -492035, -674091, 1009403, -1130527, 518547, 2126508, 53368, -1045374, -1777543, 822339, -1130185>>
              [] hour = 7 -> <<270177, 1792803, 448566, -160894, -134997, 877008, -600314, -275318, 934558, 1277347, -449817, 1127634>>
              [] hour = 8 -> <<294616, -1446364, 168640, 75771, -116824, 146082, 1650727, -57150, 559616, 1627814, -429175, -1600198>>
              [] hour = 9 -> <<-1221897, -1438375, 937512, 1532352, -200322, 1661614, -385453, 743586, 538690, -729125, -152730, 795846>>
              [] hour = 10 -> <<-1345990, -76658, -813736, -831794, 601469, -954844, 1251249, 315569, -664278, -1334810, 702253, 319380>>
              [] hour = 11 -> <<-1097997, 498158, -342713, 1576609, 560400, -802623, -100319, 1461044, 1213432, -431727, -1476179, 1104715>>
              [] hour = 12 -> <<-753315, 2054047, -1226114, -429923, 1592840, 251518, 1072944, 1238884, -1972817, -772866, 681168, 470298>>
              [] hour = 13 -> <<-536851, -1044294, 139513, 759231, 661469, -1147954, -584749, 1062394, 970107, 406157, -478703, 835526>>
              [] hour = 14 -> <<-285903, -1841889, -1546215, -1997710, 129937, 970380, 515552, 371865, -1012753, 638889, -1086922, -677525>>
              [] hour = 15 -> <<630784, 471909, -1304632, -130885, -402356, -285856, -748759, -507545, -327786, 1084021, 1302103, -22486>>
              [] hour = 16 -> <<416740, 652313, -739933, 791384, 151980, -1344147, 241080, 158318, -543031, -1069605, -938439, -771532>>
              [] hour = 17 -> <<2871588, -1160987, -335435, 219991, 945977, -986288, -1714820, -208187, -1994339, -1658861, 1049475, 126544>>
              [] hour = 18 -> <<1551524, -1227210, -426770, 453376, 1176806, 261448, -262208, -1162299, 499321, -1710819, 641762, 217052>>
              [] hour = 19 -> <<390634, 66333, 1839655, 1308436, 1572045, -988280, 585590, -1121248, 117459, 128873, 321881, 650626>>
              [] hour = 20 -> <<734561, 168655, 701598, -913381, 663614, 1559686, -867153, 906999, -539243, 728442, -925634, 894842>>
              [] hour = 21 -> <<-470908, 1042320, 228614, 92964, 532007, -696292, -822760, -109061, 244102, -142125, -133308, -973005>>
              [] hour = 22 -> <<659172, 142871, -520527, 197848, 731223, 83121, 571291, 1042258, 862491, 15507, -2474559, 546581>>
              [] hour = 23 -> <<-1606002, -274086, -247235, 996023, 360959, -437429, -191135, 634263, -1486841, 1888119, -889785, -981829>>)
         [] day = 9 ->
           (CASE hour = 0 -> <<-1111161, 2129218, -1126095, 22822, -1450958, 977176, -470042, -425625, -703457, 275276, 692395, 882852>>
              [] hour = 1 -> <<274890, -1054752, 99554, -1479440, -1016464, 106925, -37870, -285500, -798340, -1431750, -715786, -79103>>
              [] hour = 2 -> <<-765616, 6914, -434110, -458973, -8504, -1285177, -942513, -1266073, 1754508, 426702, 178581, -2424143>>
              [] hour = 3 -> <<-674222, 1594881, 35418, -812258, 584767, 2060534, -369535, 75549, -543922, -238615, -1641817, -1914320>>
              [] hour = 4 -> <<220477, -1070617, -860970, -737167, -723758, -790651, -1163753, 714589, -667153, 199381, 1781351, -1128362>>
              [] hour = 5 -> <<1426067, -571222, 402636, -411474, 1104989, 2607162, 210194, 446116, -113369, 1775841, -2361600, -587305>>
              [] hour = 6 -> <<-70969, 5984, 1534242, 760857, -849462, 1185565, -889664, -2582078, -217121, -1323124, -38501, -414545>>
              [] hour = 7 -> <<-870301, 195899, 67597, -36260, 190602, 64211, -703140, 531471, -1135936, -456018, 648374, -1111700>>
              [] hour = 8 -> <<321544, 581671, 428669, -405146, 813217, 287626, -2933421, -648152, -190285, -1330610, -894300, 873193>>
              [] hour = 9 -> <<-398874, 210786, 1783233, -1280378, -445064, -1214066, -1142116, 586406, 314545, -1725597, 1268558, 485816>>
              [] hour = 10 -> <<457882, 341331, 180553, 21450, -242269, 707112, 2057126, -875581, 371046, 437022, 423506, -1384407>>
              [] hour = 11 -> <<-172901, 80239, -347071, 648433, 1370403, 6361, 46845, -679859, 200775, -652758, 1072967, -578986>>
              [] hour = 12 -> <<-504407, 1072230, 517633, 2097635, 200821, -800946, 726387, -994403, -507132, -487554, -655966, -1753419>>
              [] hour = 13 -> <<558037, 93271, 731380, -537536, 929664, -885386, 1416127, 1215682, -2111651, 1847731, 889480, 92271>>
              [] hour = 14 -> <<-84673, -539997, 1805090, 1311645, -1251305, -33267, 462737, 496035, -1214270, 170978, 747679, -1063050>>
              [] hour = 15 -> <<159619, -1460111, 16903, 743932, 843826, 383653, 400665, 329895, 2329119, 808321, 399614, 2050130>>
              [] hour = 16 -> <<-1142551, 826024, 580378, -531803, -36279, -2337580, 1103258, -1416699, -412863, -264980, 2124743, 1094613>>
              [] hour = 17 -> <<1370847, -623294, -478195, 1696497, -636864, -167188, -531640, 1910304, -576443, 101440, -365726, -683276>>
              [] hour = 18 -> <<-1767990, -119243, -273736, 1742111, 190006, 2642258, 1445462, 218177, 516470, 1137404, 1294609, -431681>>
              [] hour = 19 -> <<560953, -757469, 753772, -96956, -400955, 122534, -1473583, 467241, -1414548, -1035356, -1169076, 100621>>
              [] hour = 20 -> <<2012773, 1298775, 508870, -1289321, 527194, 417584, 167930, 752505, 560742, 1054004, -193415, -188937>>
              [] hour = 21 -> <<-1074363, -265166, -1470731, -67629, -808352, -1405413, -1677336, -854142, 337869, 1014193, 1182528, 1020688>>
              [] hour = 22 -> <<-170126, 1028081, 296685, 603498, -415463, -1184548, -90482, -619359, -1056399, -501528, -2164, 1097605>>
              [] hour = 23 -> <<479782, 415070, 452175, 490763, 1046264, -202412, 1378534, -110327, 188812, -2603491, 1622301, -1349827>>))

\* The k-th (0-based) standard-normal draw of the stream seeded with `seed`:
\* element k of np.random.seed(seed); np.random.normal(0, 1, 2880), a float,
\* kept to the millionth.  Defined for the seeds and positions of
\* NormalHour, which are the ones the model reads.
StdNormal(seed, k) ==
    [n |-> NormalHour(seed, k \div TicksPerDay, (k % TicksPerDay) \div 12)[(k % 12) + 1],
     d |-> 1000000]

\* np.random.seed(seed=s): the stream restarts at position 0 of seed s
Seeded(s) == [seed |-> s, pos |-> 0]

\* the stream of a process that has not seeded yet (OS entropy)
Unseeded == [seed |-> 99, pos |-> 0]

\* np.random.normal(loc=0, scale=sc, size=n) on stream r: the array drawn,
\* as a descriptor, and the stream afterwards
NormalArray(r, sc, n) == [seed |-> r.seed, start |-> r.pos, scale |-> sc, size |-> n]
AfterDraw(r, n) == [seed |-> r.seed, pos |-> r.pos + n]

\* numpy accepts index i (>= 0 here) of an array of that size
ArrayIndexOk(arr, i) == i < arr.size /\ i >= -arr.size

\* self.noise[i]: loc + scale * (the standard-normal draw)
NoiseAt(arr, i) == Mul(Num(arr.scale), StdNormal(arr.seed, arr.start + i))

----------------------------------------------------------------------------
(* iCGMSensor *)

NoArray == [kind |-> "unset", size |-> 0, lo |-> Num(0), hi |-> Num(0)]

Absent == [alive |-> FALSE]

\* faulty variant: the last tick is taken to be sensor_life_days * 288
validate_time_index_OffByOne(sensor_life_days, time_index) ==
    LET before_sensor_starts == time_index < 0
        after_sensor_expires == time_index > (sensor_life_days * TicksPerDay)
    IN  ~(before_sensor_starts \/ after_sensor_expires)

\* validate_time_index does not raise
validate_time_index(sensor_life_days, time_index) ==
    LET before_sensor_starts == time_index < 0
        after_sensor_expires == time_index > (sensor_life_days * TicksPerDay - 1)
    IN  ~(before_sensor_starts \/ after_sensor_expires)

\* str(e) of the exception validate_time_index raises, as the text fragments
\* it is made of
validate_time_index_message(time_index) ==
    <<"Sensor time_index ", ToString(time_index), " outside of sensor life! ">>

\* the fragments the other raise statements use or append
NoPropertiesMessage == <<"No Sensor Properties Given">>
LifeDaysMessage == <<"iCGM Sensor's sensor_life_days must be a positive non-zero integer">>
ExpiredMessage == <<"Sensor has expired!">>
BackfillMessage ==
    <<"Trying to backfill data before start of sensor life. ",
      "Either establish the sensor at a different time_index or backfill with less data.">>
\* str(e) of the exceptions Python and numpy raise themselves
\* true_bg_history[-delay_index] on a list that has no such element
ListIndexErrorMessage == <<"list index out of range">>
\* self.drift_multiplier[i] / self.noise[i] on an array of `size` elements
ArrayIndexErrorMessage(i, size) ==
    <<"index ", ToString(i), " is out of bounds for axis 0 with size ", ToString(size)>>
AttributeErrorMessage == <<"'iCGMSensor' object has no attribute 'drift_multiplier'">>
ValueErrorMessage == <<"cannot convert float NaN to integer">>
\* "raise NotImplementedError": no text
NoMessage == <<>>

\* np.interp(x, (x0, x1), (f0, f1)) for x0 <= x <= x1: f0 + slope * (x - x0).
\* Onto f0 = f1 the slope is 0 and every x gives f0.
Interp(x, x0, x1, f0, f1) ==
    IF f0 = f1 THEN f0
    ELSE Add(f0, Mul(Div(Add(f1, Mul(Num(-1), f0)), Add(x1, Mul(Num(-1), x0))),
                     Add(x, Mul(Num(-1), x0))))

\* the product of two non-negative numbers given in millionths, in millionths
\* (computed in parts, to stay within 32-bit integers)
MulMicro(a, b) ==
    (a \div 1000) * (b \div 1000) + ((a \div 1000) * (b % 1000)) \div 1000
    + ((a % 1000) * (b \div 1000)) \div 1000 + ((a % 1000) * (b % 1000)) \div 1000000

\* the power series of the sine up to the term of degree 11, in nested form:
\* x (1 - x2/6 (1 - x2/20 (1 - x2/42 (1 - x2/72 (1 - x2/110))))), x2 = x * x
SinSeries(x, x2) ==
    MulMicro(x,
        1000000 - MulMicro(x2,
            1000000 - MulMicro(x2,
                1000000 - MulMicro(x2,
                    1000000 - MulMicro(x2, 1000000 - x2 \div 110) \div 72)
                \div 42)
            \div 20)
        \div 6)

\* the sine of an angle in [0, pi]: sin(b) = sin(pi - b) brings it into
\* [0, pi/2]
SinHalfTurn(b) ==
    Min2(1000000,
         SinSeries(IF b > PiMicro \div 2 THEN PiMicro - b ELSE b,
                   MulMicro(IF b > PiMicro \div 2 THEN PiMicro - b ELSE b,
                            IF b > PiMicro \div 2 THEN PiMicro - b ELSE b)))

\* np.sin of an angle given in millionths of a radian, in millionths:
\* sin(h + pi) = -sin(h)
SinMicro(a) ==
    IF a % TwoPiMicro > PiMicro
    THEN -SinHalfTurn((a % TwoPiMicro) - PiMicro)
    ELSE SinHalfTurn(a % TwoPiMicro)

\* t[i] + phi_drift in millionths of a radian, t = np.linspace(0,
\* oscillations * np.pi, n): t[i] = i * oscillations * pi / (n - 1); phi_drift
\* is in radians (a whole number of them here), and whole turns are taken
\* off it (a turn is 6.283185307: the 307 is what TwoPiMicro leaves out)
AngleMicro(osc, phi, i, n) ==
    osc * i * (PiMicro \div (n - 1)) + (osc * i * (PiMicro % (n - 1))) \div (n - 1)
    + phi * 1000000 - ((phi * 1000000) \div TwoPiMicro) * TwoPiMicro
    - (((phi * 1000000) \div TwoPiMicro) * 307) \div 1000

\* sn[i] = np.sin(t + self.phi_drift)[i]: a value in [-1, 1], to within a few
\* millionths
SinApprox(osc, phi, i, n) == [n |-> SinMicro(AngleMicro(osc, phi, i, n)), d |-> 1000000]

\* a float that is a whole number, kept over denominator 1
Whole(v) == IF v.n % v.d = 0 THEN Num(v.n \div v.d) ELSE v

\* self.drift_multiplier[i]
DriftAt(s, i) ==
    IF s.drift_multiplier.kind = "ones" THEN Num(1)
    ELSE Whole(Interp(SinApprox(s.bias_drift_oscillations, s.phi_drift, i,
                                s.drift_multiplier.size),
                      Num(-1), Num(1), s.drift_multiplier.lo, s.drift_multiplier.hi))

\* np.max([noise_coefficient, sys.float_info.epsilon]).  Epsilon (2.2e-16) is
\* below the resolution of the model's numbers: the floor shows as 0.
NoiseScale(noise_coefficient) == Max2(noise_coefficient, 0)

\* length of both precomputed arrays: "size=288 * 10", "np.ones(288 * 10)"
ArraySize == TicksPerDay * ArrayDays

\* faulty variant: the stream is not seeded, the draw continues where the
\* process-wide stream stands
SeedStep_NoSeed(s, r) == r

\* calculate_sensor_bias_properties, first statement: np.random.seed(...)
SeedStep(s, r) == Seeded(s.random_seed)

\* calculate_sensor_bias_properties, the rest, on the stream as it is when
\* the draw runs: [exc, s, rng]
DrawStep(s, r) ==
    LET noise == NormalArray(r, NoiseScale(s.noise_coefficient), ArraySize)
        r2 == AfterDraw(r, ArraySize)
        bias_factor == Div(Num(s.bias_norm_factor + s.initial_bias),
                           Num(Max2(s.bias_norm_factor, 1)))
        drift == IF s.bias_drift_type = "random"
                 THEN [kind |-> "interp", size |-> ArraySize,
                       lo |-> Num(s.bias_drift_range_start),
                       hi |-> Num(s.bias_drift_range_start)]
                 ELSE IF s.bias_drift_type = "none"
                 THEN [kind |-> "ones", size |-> ArraySize, lo |-> Num(1), hi |-> Num(1)]
                 ELSE NoArray
        s2 == [s EXCEPT !.noise = noise, !.bias_factor = bias_factor,
                        !.drift_multiplier = drift]
    IN  IF s.bias_drift_type = "linear"
        THEN [exc |-> "NotImplementedError", msg |-> NoMessage, s |-> s2, rng |-> r2]
        ELSE [exc |-> "none", msg |-> NoMessage, s |-> s2, rng |-> r2]

NoProps == [given |-> FALSE]

\* A number passed as sensor_life_days: a Python int k, or a Python float n/d
\* (d > 0).  isinstance(v, int) is v.type = "int".
PyInt(k) == [type |-> "int", n |-> k, d |-> 1]
PyFloat(n, d) == [type |-> "float", n |-> n, d |-> d]

\* iCGMSensor.__init__ up to (not including) calculate_sensor_bias_properties:
\* [exc, s].  "sensor_life_days <= 0 or not isinstance(sensor_life_days, int)":
\* n <= 0 is the comparison with 0, the denominator being positive.
InitFields(sensor_properties, sensor_life_days, time_index, sensor_datetime) ==
    IF ~sensor_properties.given
    THEN [exc |-> "Exception", msg |-> NoPropertiesMessage, s |-> Absent]
    ELSE IF sensor_life_days.n <= 0 \/ sensor_life_days.type # "int"
    THEN [exc |-> "Exception", msg |-> LifeDaysMessage, s |-> Absent]
    ELSE IF ~validate_time_index(sensor_life_days.n, time_index)
    THEN [exc |-> "Exception", msg |-> validate_time_index_message(time_index), s |-> Absent]
    ELSE [exc |-> "none", msg |-> NoMessage,
          s |-> [alive |-> TRUE,
                 \* an int here: the value of the Python int given
                 sensor_life_days |-> sensor_life_days.n,
                 time_index |-> time_index,
                 sensor_datetime |-> sensor_datetime,
                 true_bg_history |-> <<>>,
                 sensor_bg_history |-> <<>>,
                 datetime_history |-> <<>>,
                 initial_bias |-> sensor_properties.initial_bias,
                 phi_drift |-> sensor_properties.phi_drift,
                 bias_drift_range_start |-> sensor_properties.bias_drift_range_start,
                 bias_drift_range_end |-> sensor_properties.bias_drift_range_end,
                 bias_drift_oscillations |-> sensor_properties.bias_drift_oscillations,
                 bias_norm_factor |-> sensor_properties.bias_norm_factor,
                 noise_coefficient |-> sensor_properties.noise_coefficient,
                 delay |-> sensor_properties.delay,
                 random_seed |-> sensor_properties.random_seed,
                 bias_drift_type |-> sensor_properties.bias_drift_type,
                 noise |-> NormalArray(Unseeded, 0, 0),
                 bias_factor |-> NaN,
                 drift_multiplier |-> NoArray,
                 \* history variables, not fields of the object: the insertion
                 \* tick, the updates that succeeded, the updates that raised
                 \* (counted up to 2)
                 h_t0 |-> time_index,
                 h_updates |-> 0,
                 h_failed |-> 0]]

\* iCGMSensor(sensor_properties, sensor_life_days, time_index, sensor_datetime)
\* run to the end on stream r: [exc, s, rng].  No object results when it raises.
iCGMSensorInit(sensor_properties, sensor_life_days, time_index, sensor_datetime, r) ==
    LET f == InitFields(sensor_properties, sensor_life_days, time_index, sensor_datetime)
        c == DrawStep(f.s, SeedStep(f.s, r))
    IN  IF f.exc # "none" THEN [exc |-> f.exc, msg |-> f.msg, s |-> Absent, rng |-> r]
        ELSE IF c.exc # "none"
        THEN [exc |-> c.exc, msg |-> c.msg, s |-> Absent, rng |-> c.rng]
        ELSE c

\* faulty variant: the clock is advanced before the new tick is validated
update_AssignFirst(s, time) ==
    LET next_time_index == s.time_index + 1
        s2 == [s EXCEPT !.time_index = next_time_index, !.sensor_datetime = time]
    IN  IF validate_time_index(s.sensor_life_days, next_time_index)
        THEN [exc |-> "none", msg |-> NoMessage, s |-> s2]
        ELSE [exc |-> "Exception",
              msg |-> validate_time_index_message(next_time_index) \o ExpiredMessage,
              s |-> s2]

\* update(time): [exc, s]
update(s, time) ==
    LET next_time_index == s.time_index + 1
    IN  IF validate_time_index(s.sensor_life_days, next_time_index)
        THEN [exc |-> "none", msg |-> NoMessage,
              s |-> [s EXCEPT !.time_index = next_time_index, !.sensor_datetime = time]]
        ELSE [exc |-> "Exception",
              msg |-> validate_time_index_message(next_time_index) \o ExpiredMessage,
              s |-> s]

\* faulty variant: the timestamp is not appended
append_bg_history_NoDatetime(s, true_bg_value, icgm_value, sensor_datetime) ==
    [s EXCEPT !.true_bg_history = Append(@, true_bg_value),
              !.sensor_bg_history = Append(@, icgm_value)]

\* append_bg_history
append_bg_history(s, true_bg_value, icgm_value, sensor_datetime) ==
    [s EXCEPT !.true_bg_history = Append(@, true_bg_value),
              !.sensor_bg_history = Append(@, icgm_value),
              !.datetime_history = Append(@, sensor_datetime)]

\* faulty variant: once the delay has passed, the current value is used
DelayedTrueBg_Current(delay, true_bg_value, true_bg_history) ==
    IF delay > 0 /\ Len(true_bg_history) < delay \div TickMinutes
    THEN NaN
    ELSE Num(true_bg_value)

\* get_bg, "Get delayed true_bg"
DelayedTrueBg(delay, true_bg_value, true_bg_history) ==
    IF delay > 0
    THEN LET delay_index == delay \div TickMinutes
         IN  IF Len(true_bg_history) >= delay_index
             THEN \* Python's history[-delay_index]; [-0] is [0]
                  IF delay_index = 0
                  THEN Num(true_bg_history[1])
                  ELSE Num(true_bg_history[Len(true_bg_history) - delay_index + 1])
             ELSE NaN
    ELSE Num(true_bg_value)

\* get_bg, "Calculate value"
IcgmValue(s, delayed_true_bg, relative_time_index) ==
    Add(Mul(Mul(delayed_true_bg, s.bias_factor), DriftAt(s, relative_time_index)),
        NoiseAt(s.noise, relative_time_index))

\* faulty variant: the true value is stored before the tick is validated and
\* the value computed, so a call that raises has appended an entry
get_bg_AppendsFirst(s, true_bg_value, true_bg_history, save_to_sensor, time_index_offset) ==
    LET relative_time_index == s.time_index + time_index_offset
        relative_sensor_datetime ==
            IF IsDatetime(s.sensor_datetime)
            THEN DT(s.sensor_datetime.min + time_index_offset * TickMinutes)
            ELSE s.sensor_datetime
        delayed_true_bg == DelayedTrueBg(s.delay, true_bg_value, true_bg_history)
        icgm_value == IcgmValue(s, delayed_true_bg, relative_time_index)
        s1 == IF save_to_sensor
              THEN append_bg_history(s, true_bg_value, NaN, relative_sensor_datetime)
              ELSE s
    IN  IF ~validate_time_index(s.sensor_life_days, relative_time_index)
        THEN [exc |-> "Exception", msg |-> validate_time_index_message(relative_time_index),
              s |-> s1, value |-> NaN]
        ELSE IF s.delay > 0 /\ s.delay \div TickMinutes = 0 /\ true_bg_history = <<>>
        THEN [exc |-> "IndexError", msg |-> ListIndexErrorMessage, s |-> s1, value |-> NaN]
        ELSE IF s.drift_multiplier.kind = "unset"
        THEN [exc |-> "AttributeError", msg |-> AttributeErrorMessage, s |-> s1, value |-> NaN]
        ELSE IF ~ArrayIndexOk(s.drift_multiplier, relative_time_index)
                \/ ~ArrayIndexOk(s.noise, relative_time_index)
        THEN [exc |-> "IndexError", msg |-> ArrayIndexErrorMessage(relative_time_index,
                  IF ~ArrayIndexOk(s.drift_multiplier, relative_time_index)
                  THEN s.drift_multiplier.size ELSE s.noise.size),
              s |-> s1, value |-> NaN]
        ELSE [exc |-> "none", msg |-> NoMessage,
              s |-> IF save_to_sensor
                    THEN append_bg_history(s, true_bg_value, icgm_value,
                                           relative_sensor_datetime)
                    ELSE s,
              value |-> icgm_value]

\* faulty variant: the timestamp of the relative tick is written back to the
\* sensor ("self.sensor_datetime += ...")
get_bg_MovesClock(s, true_bg_value, true_bg_history, save_to_sensor, time_index_offset) ==
    LET relative_time_index == s.time_index + time_index_offset
        relative_sensor_datetime ==
            IF IsDatetime(s.sensor_datetime)
            THEN DT(s.sensor_datetime.min + time_index_offset * TickMinutes)
            ELSE s.sensor_datetime
        delayed_true_bg == DelayedTrueBg(s.delay, true_bg_value, true_bg_history)
        icgm_value == IcgmValue(s, delayed_true_bg, relative_time_index)
        s1 == [s EXCEPT !.sensor_datetime = relative_sensor_datetime]
    IN  IF ~validate_time_index(s.sensor_life_days, relative_time_index)
        THEN [exc |-> "Exception", msg |-> validate_time_index_message(relative_time_index),
              s |-> s, value |-> NaN]
        ELSE IF s.delay > 0 /\ s.delay \div TickMinutes = 0 /\ true_bg_history = <<>>
        THEN [exc |-> "IndexError", msg |-> ListIndexErrorMessage, s |-> s1, value |-> NaN]
        ELSE IF s.drift_multiplier.kind = "unset"
        THEN [exc |-> "AttributeError", msg |-> AttributeErrorMessage, s |-> s1, value |-> NaN]
        ELSE IF ~ArrayIndexOk(s.drift_multiplier, relative_time_index)
                \/ ~ArrayIndexOk(s.noise, relative_time_index)
        THEN [exc |-> "IndexError", msg |-> ArrayIndexErrorMessage(relative_time_index,
                  IF ~ArrayIndexOk(s.drift_multiplier, relative_time_index)
                  THEN s.drift_multiplier.size ELSE s.noise.size),
              s |-> s1, value |-> NaN]
        ELSE [exc |-> "none", msg |-> NoMessage,
              s |-> IF save_to_sensor
                    THEN append_bg_history(s1, true_bg_value, icgm_value,
                                           relative_sensor_datetime)
                    ELSE s1,
              value |-> icgm_value]

\* get_bg(true_bg_value, true_bg_history, save_to_sensor, time_index_offset):
\* [exc, s, value]
get_bg(s, true_bg_value, true_bg_history, save_to_sensor, time_index_offset) ==
    LET relative_time_index == s.time_index + time_index_offset
        relative_sensor_datetime ==
            IF IsDatetime(s.sensor_datetime)
            THEN DT(s.sensor_datetime.min + time_index_offset * TickMinutes)
            ELSE s.sensor_datetime
        delayed_true_bg == DelayedTrueBg(s.delay, true_bg_value, true_bg_history)
        \* "if save_to_sensor: self.append_bg_history(...)" and "return icgm_value"
        SaveAndReturn(icgm_value) ==
            [exc |-> "none", msg |-> NoMessage,
             s |-> IF save_to_sensor
                   THEN append_bg_history(s, true_bg_value, icgm_value,
                                          relative_sensor_datetime)
                   ELSE s,
             value |-> icgm_value]
    IN  IF ~validate_time_index(s.sensor_life_days, relative_time_index)
        THEN [exc |-> "Exception", msg |-> validate_time_index_message(relative_time_index),
              s |-> s, value |-> NaN]
        ELSE IF s.delay > 0 /\ s.delay \div TickMinutes = 0 /\ true_bg_history = <<>>
        THEN [exc |-> "IndexError", msg |-> ListIndexErrorMessage, s |-> s, value |-> NaN]
        ELSE IF s.drift_multiplier.kind = "unset"
        THEN [exc |-> "AttributeError", msg |-> AttributeErrorMessage, s |-> s, value |-> NaN]
        ELSE IF ~ArrayIndexOk(s.drift_multiplier, relative_time_index)
                \/ ~ArrayIndexOk(s.noise, relative_time_index)
        THEN [exc |-> "IndexError", msg |-> ArrayIndexErrorMessage(relative_time_index,
                  IF ~ArrayIndexOk(s.drift_multiplier, relative_time_index)
                  THEN s.drift_multiplier.size ELSE s.noise.size),
              s |-> s, value |-> NaN]
        ELSE SaveAndReturn(IcgmValue(s, delayed_true_bg, relative_time_index))

\* faulty variant: the offset is not advanced from one value to the next
RECURSIVE TraceLoop_FixedOffset(_, _, _, _, _, _, _)
TraceLoop_FixedOffset(s, true_bg_trace, j, temp_true_bg_history, sensor_bg_trace, save_to_sensor, time_index_offset) ==
    IF j > Len(true_bg_trace)
    THEN [exc |-> "none", msg |-> NoMessage, s |-> s, values |-> sensor_bg_trace]
    ELSE LET r == get_bg(s, true_bg_trace[j], temp_true_bg_history, save_to_sensor,
                         time_index_offset)
         IN  IF r.exc # "none"
             THEN [exc |-> r.exc, msg |-> r.msg, s |-> r.s, values |-> sensor_bg_trace]
             ELSE TraceLoop_FixedOffset(r.s, true_bg_trace, j + 1,
                                        Append(temp_true_bg_history, true_bg_trace[j]),
                                        Append(sensor_bg_trace, r.value), save_to_sensor,
                                        time_index_offset)

\* faulty variant: the temporary history is the sensor's own list
\* ("temp_true_bg_history = self.true_bg_history"), so each value fed to the
\* loop is appended to the sensor's true_bg_history
RECURSIVE TraceLoop_SharedHistory(_, _, _, _, _, _, _)
TraceLoop_SharedHistory(s, true_bg_trace, j, temp_true_bg_history, sensor_bg_trace, save_to_sensor, time_index_offset) ==
    IF j > Len(true_bg_trace)
    THEN [exc |-> "none", msg |-> NoMessage, s |-> s, values |-> sensor_bg_trace]
    ELSE LET r == get_bg(s, true_bg_trace[j], temp_true_bg_history, save_to_sensor,
                         time_index_offset)
         IN  IF r.exc # "none"
             THEN [exc |-> r.exc, msg |-> r.msg, s |-> r.s, values |-> sensor_bg_trace]
             ELSE TraceLoop_SharedHistory(
                      [r.s EXCEPT !.true_bg_history = Append(@, true_bg_trace[j])],
                      true_bg_trace, j + 1,
                      Append(temp_true_bg_history, true_bg_trace[j]),
                      Append(sensor_bg_trace, r.value), save_to_sensor,
                      time_index_offset + 1)

\* get_bg_trace's loop from input position j on: [exc, s, values]
RECURSIVE TraceLoop(_, _, _, _, _, _, _)
TraceLoop(s, true_bg_trace, j, temp_true_bg_history, sensor_bg_trace, save_to_sensor, time_index_offset) ==
    IF j > Len(true_bg_trace)
    THEN [exc |-> "none", msg |-> NoMessage, s |-> s, values |-> sensor_bg_trace]
    ELSE LET \* the rest of the loop, r being what get_bg gave for input j
             Rest(r) ==
                 IF r.exc # "none"
                 THEN [exc |-> r.exc, msg |-> r.msg, s |-> r.s, values |-> sensor_bg_trace]
                 ELSE TraceLoop(r.s, true_bg_trace, j + 1,
                                Append(temp_true_bg_history, true_bg_trace[j]),
                                Append(sensor_bg_trace, r.value), save_to_sensor,
                                time_index_offset + 1)
         IN  Rest(get_bg(s, true_bg_trace[j], temp_true_bg_history, save_to_sensor,
                         time_index_offset))

\* get_bg_trace(true_bg_trace, save_to_sensor, time_index_offset): [exc, s, values]
get_bg_trace(s, true_bg_trace, save_to_sensor, time_index_offset) ==
    TraceLoop(s, true_bg_trace, 1, <<>>, <<>>, save_to_sensor, time_index_offset)

\* faulty variant: the window ends one tick before the current one
\* ("- len(backfill_true_bg_history)" without the "+ 1")
backfill_and_calculate_sensor_data_EndsBefore(s, backfill_true_bg_history) ==
    LET backfill_time_offset == -Len(backfill_true_bg_history)
        backfill_start_index == s.time_index + backfill_time_offset
        r == get_bg_trace(s, backfill_true_bg_history, TRUE, backfill_time_offset)
    IN  IF ~validate_time_index(s.sensor_life_days, backfill_start_index)
        THEN [exc |-> "Exception",
              msg |-> validate_time_index_message(backfill_start_index) \o BackfillMessage,
              s |-> s, values |-> <<>>]
        ELSE IF r.exc # "none"
        THEN [exc |-> "Exception", msg |-> r.msg \o BackfillMessage, s |-> r.s,
              values |-> <<>>]
        ELSE [exc |-> "none", msg |-> NoMessage, s |-> r.s, values |-> <<>>]

\* backfill_and_calculate_sensor_data(backfill_true_bg_history): [exc, s, values]
\* Every exception of the try block is re-raised as Exception.
backfill_and_calculate_sensor_data(s, backfill_true_bg_history) ==
    LET backfill_time_offset == -Len(backfill_true_bg_history) + 1
        backfill_start_index == s.time_index + backfill_time_offset
        \* the except clause, r being what get_bg_trace gave
        Reraise(r) ==
            IF r.exc # "none"
            THEN [exc |-> "Exception", msg |-> r.msg \o BackfillMessage, s |-> r.s,
                  values |-> <<>>]
            ELSE [exc |-> "none", msg |-> NoMessage, s |-> r.s, values |-> <<>>]
    IN  IF ~validate_time_index(s.sensor_life_days, backfill_start_index)
        THEN [exc |-> "Exception",
              msg |-> validate_time_index_message(backfill_start_index) \o BackfillMessage,
              s |-> s, values |-> <<>>]
        ELSE Reraise(get_bg_trace(s, backfill_true_bg_history, TRUE, backfill_time_offset))

\* max(40, min(400, r)) for an integer r
Clamp(r) == Max2(LoopMin, Min2(LoopMax, r))

\* max(40, min(400, round(bg))) for one committed value.  round(nan) depends on
\* the numpy installed: it raises ValueError (round returns a Python int), or
\* it is nan again, and then min(400, nan) is 400 because nan < 400 is False.
LoopValue(bg) == IF IsNaN(bg) THEN LoopMax ELSE Clamp(RoundHalfEven(bg))

\* get_loop_inputs(): [exc, s, dates, values]; round_raises: which numpy
get_loop_inputs(s, round_raises) ==
    IF round_raises /\ \E k \in 1..Len(s.sensor_bg_history) : IsNaN(s.sensor_bg_history[k])
    THEN [exc |-> "ValueError", msg |-> ValueErrorMessage, s |-> s, dates |-> <<>>,
          values |-> <<>>]
    ELSE [exc |-> "none", msg |-> NoMessage, s |-> s, dates |-> s.datetime_history,
          values |-> [k \in 1..Len(s.sensor_bg_history) |-> LoopValue(s.sensor_bg_history[k])]]

----------------------------------------------------------------------------
(* iCGMSensorGenerator *)

\* An attribute that is None, or that the object does not have yet, is <<>>;
\* one that holds x is <<x>>.
None == <<>>
Some(x) == <<x>>
IsSet(a) == a # <<>>

NoGen == [alive |-> FALSE]

\* iCGMSensorGenerator(use_g6_accuracy_in_loss, bias_drift_type, random_seed,
\* true_bg_trace): [g, rng]
iCGMSensorGeneratorInit(use_g6_accuracy_in_loss, bias_drift_type, random_seed, true_bg_trace) ==
    [g |-> [alive |-> TRUE,
            use_g6_accuracy_in_loss |-> use_g6_accuracy_in_loss,
            bias_type |-> "percentage_of_value",
            bias_drift_type |-> bias_drift_type,
            random_seed |-> random_seed,
            true_bg_trace |-> true_bg_trace,
            delay |-> IF use_g6_accuracy_in_loss THEN DelayG6 ELSE DelayDefault,
            icgm_traces |-> None,
            individual_sensor_properties |-> None,
            batch_sensor_brute_search_results |-> None,
            batch_sensor_properties |-> None,
            \* attributes __init__ does not create
            dist_params |-> None,
            n_sensors |-> None,
            sensors |-> None,
            \* history variable: a fit has succeeded
            h_fitted |-> FALSE],
     rng |-> Seeded(random_seed)]

\* scipy.optimize.brute over sf.johnsonsu_icgm_sensor raises (the loss
\* function rejects an empty trace)
BruteRaises(true_bg_trace) == true_bg_trace = <<>>

RECURSIVE SumSeq(_)
SumSeq(q) == IF q = <<>> THEN 0 ELSE Head(q) + SumSeq(Tail(q))

\* the search result: [0] is the parameter vector (a, b, mu, sigma,
\* noise_coefficient, bias_drift_range_min, bias_drift_range_max,
\* bias_drift_oscillations); it depends on the trace and on the settings
BruteResult(g, true_bg_trace) ==
    <<  <<1, 1, SumSeq(true_bg_trace) % 3, 1, 1 + g.random_seed, 2, 3, 1>>,
        Len(true_bg_trace) >>

\* str(e) of the exceptions the generator raises
NoTraceMessage == <<"No true_bg_trace given">>
NoDistParamsMessage == <<"'iCGMSensorGenerator' object has no attribute 'dist_params'">>
\* the text of the exception the search raises is set outside this module;
\* the model keeps none
BruteRaisesMessage == <<>>

\* fit(true_bg_trace): [exc, msg, g]
fit(g, true_bg_trace) ==
    IF ~IsSet(true_bg_trace) THEN [exc |-> "Exception", msg |-> NoTraceMessage, g |-> g]
    ELSE LET g1 == [g EXCEPT !.true_bg_trace = true_bg_trace]
             res == BruteResult(g1, true_bg_trace[1])
         IN  IF BruteRaises(true_bg_trace[1])
             THEN [exc |-> "ValueError", msg |-> BruteRaisesMessage, g |-> g1]
             ELSE [exc |-> "none", msg |-> NoMessage,
                   g |-> [g1 EXCEPT !.batch_sensor_brute_search_results = Some(res),
                                    !.dist_params = Some(res[1]),
                                    !.h_fitted = TRUE]]

\* sf.generate_icgm_sensors(...): [traces, rows]; row i is the property row of
\* sensor i
GenerateIcgmSensors(true_bg_trace, dist_params, n_sensors, bias_type, bias_drift_type, bias_drift_range, bias_drift_oscillations, noise_coefficient, delay, random_seed) ==
    LET row(i) == [given |-> TRUE,
                   initial_bias |-> dist_params[3] + i,
                   phi_drift |-> 250 * i,
                   bias_drift_range_start |-> bias_drift_range[1],
                   bias_drift_range_end |-> bias_drift_range[2],
                   bias_drift_oscillations |-> bias_drift_oscillations,
                   bias_norm_factor |-> 2,
                   noise_coefficient |-> noise_coefficient,
                   delay |-> delay,
                   random_seed |-> random_seed + i,
                   bias_drift_type |-> bias_drift_type]
    IN  [traces |-> [i \in 1..n_sensors |-> true_bg_trace],
         rows |-> [i \in 1..n_sensors |-> row(i - 1)]]

\* faulty variant: every sensor is built from the first row of the table
RECURSIVE BuildSensors_FirstRow(_, _, _, _)
BuildSensors_FirstRow(rows, j, built, r) ==
    IF j > Len(rows)
    THEN [exc |-> "none", msg |-> NoMessage, sensors |-> built, rng |-> r]
    ELSE LET c == iCGMSensorInit(rows[1], PyInt(DefaultLifeDays), DefaultTimeIndex, NoneDT, r)
         IN  IF c.exc # "none"
             THEN [exc |-> c.exc, msg |-> c.msg, sensors |-> built, rng |-> c.rng]
             ELSE BuildSensors_FirstRow(rows, j + 1, Append(built, c.s), c.rng)

\* generate_sensors, the loop "for sensor_num in range(n_sensors)" from row j
\* on: [exc, msg, sensors, rng]
RECURSIVE BuildSensors(_, _, _, _)
BuildSensors(rows, j, built, r) ==
    IF j > Len(rows)
    THEN [exc |-> "none", msg |-> NoMessage, sensors |-> built, rng |-> r]
    ELSE LET c == iCGMSensorInit(rows[j], PyInt(DefaultLifeDays), DefaultTimeIndex, NoneDT, r)
         IN  IF c.exc # "none"
             THEN [exc |-> c.exc, msg |-> c.msg, sensors |-> built, rng |-> c.rng]
             ELSE BuildSensors(rows, j + 1, Append(built, c.s), c.rng)

\* faulty variant: dist_params falls back to a default vector when no fit has
\* set it
generate_sensors_Default(g, n_sensors, r) ==
    LET dist_params == IF IsSet(g.dist_params) THEN g.dist_params[1]
                       ELSE <<1, 1, 0, 1, 1, 2, 3, 1>>
        made == GenerateIcgmSensors(g.true_bg_trace, SubSeq(dist_params, 1, 4), n_sensors,
                    g.bias_type, g.bias_drift_type, <<dist_params[6], dist_params[7]>>,
                    dist_params[8], dist_params[5], g.delay, g.random_seed)
        g1 == [g EXCEPT !.icgm_traces = Some(made.traces),
                        !.individual_sensor_properties = Some(made.rows)]
        b == BuildSensors(made.rows, 1, <<>>, r)
    IN  IF b.exc # "none" THEN [exc |-> b.exc, msg |-> b.msg, g |-> g1, rng |-> b.rng]
        ELSE [exc |-> "none", msg |-> NoMessage,
              g |-> [g1 EXCEPT !.n_sensors = Some(n_sensors), !.sensors = Some(b.sensors)],
              rng |-> b.rng]

\* generate_sensors(n_sensors): [exc, msg, g, rng]
generate_sensors(g, n_sensors, r) ==
    IF ~IsSet(g.dist_params)
    THEN \* "= self.dist_params": the attribute does not exist
         [exc |-> "AttributeError", msg |-> NoDistParamsMessage, g |-> g, rng |-> r]
    ELSE LET dist_params == g.dist_params[1]
             noise_coefficient == dist_params[5]
             bias_drift_range == <<dist_params[6], dist_params[7]>>
             bias_drift_oscillations == dist_params[8]
             made == GenerateIcgmSensors(g.true_bg_trace, SubSeq(dist_params, 1, 4),
                         n_sensors, g.bias_type, g.bias_drift_type, bias_drift_range,
                         bias_drift_oscillations, noise_coefficient, g.delay,
                         g.random_seed)
             g1 == [g EXCEPT !.icgm_traces = Some(made.traces),
                             !.individual_sensor_properties = Some(made.rows)]
             b == BuildSensors(made.rows, 1, <<>>, r)
         IN  IF b.exc # "none"
             THEN [exc |-> b.exc, msg |-> b.msg, g |-> g1, rng |-> b.rng]
             ELSE [exc |-> "none", msg |-> NoMessage,
                   g |-> [g1 EXCEPT !.n_sensors = Some(n_sensors),
                                    !.sensors = Some(b.sensors)],
                   rng |-> b.rng]

----------------------------------------------------------------------------
(* Inputs *)

\* a row of the sensor property table
Props(initial_bias, bias_norm_factor, delay, random_seed, bias_drift_type) ==
    [given |-> TRUE,
     initial_bias |-> initial_bias,
     phi_drift |-> 250,
     bias_drift_range_start |-> 2,
     bias_drift_range_end |-> 3,
     bias_drift_oscillations |-> 1,
     bias_norm_factor |-> bias_norm_factor,
     noise_coefficient |-> 1,
     delay |-> delay,
     random_seed |-> random_seed,
     bias_drift_type |-> bias_drift_type]

Delays == {0, 5, 10}
DriftTypes == {"random", "none"}
\* (initial_bias, bias_norm_factor): bias factors 3/2 and 5
Biases == {<<1, 2>>, <<5, 0>>}
TrueBGs == {10, 101}
LifeDays == {0, DefaultLifeDays, 11}
\* lifetimes that are not a positive int: a negative int, and the floats 10.5,
\* 10.0 and -0.5
BadLifeDays == {PyInt(-1), PyFloat(21, 2), PyFloat(10, 1), PyFloat(-1, 2)}
\* a drift type that is none of "random", "linear", "none"
OtherDriftType == "other"
Offsets == {-1, 0, 1}
\* (true_bg_value, icgm_value, sensor_datetime) of a direct append_bg_history call
DirectEntries == {<<10, Num(40), NoneDT>>}

SeqsUpTo(S, n) == UNION {[1..k -> S] : k \in 0..n}
Traces == SeqsUpTo(TrueBGs, MaxTrace)

LastTick(sensor_life_days) == sensor_life_days * TicksPerDay - 1
\* insertion ticks tried for a lifetime: both ends of the lifetime and the end
\* of the arrays
StartTicks(sensor_life_days) ==
    {-1, DefaultTimeIndex, ArraySize - 1,
     LastTick(sensor_life_days) - 1, LastTick(sensor_life_days),
     LastTick(sensor_life_days) + 1}

Config(sensor_properties, sensor_life_days, time_index, with_datetime) ==
    [p |-> sensor_properties, life |-> sensor_life_days, t |-> time_index,
     dt |-> IF with_datetime THEN DT(time_index * TickMinutes) ELSE NoneDT]

\* constructor calls that vary the lifetime and the insertion tick
ClockConfigs ==
    {Config(Props(1, 2, 10, 0, "random"), PyInt(life), t, TRUE) :
        life \in LifeDays, t \in UNION {StartTicks(l) : l \in LifeDays}}
    \cup {Config(Props(1, 2, 10, 0, "random"), life, DefaultTimeIndex, TRUE) :
            life \in BadLifeDays}
    \cup {Config(NoProps, PyInt(DefaultLifeDays), DefaultTimeIndex, FALSE),
          Config(Props(1, 2, 10, 0, "linear"), PyInt(DefaultLifeDays), DefaultTimeIndex,
                 FALSE),
          Config(Props(1, 2, 10, 0, OtherDriftType), PyInt(DefaultLifeDays),
                 DefaultTimeIndex, FALSE)}

\* constructor calls that vary the sensor properties
ValueConfigs ==
    {Config(Props(b[1], b[2], d, 0, "random"), PyInt(DefaultLifeDays), 2, TRUE) :
        b \in Biases, d \in Delays}
    \cup {Config(Props(1, 2, DelayG6, 0, "none"), PyInt(DefaultLifeDays), 2, TRUE)}
    \cup {Config(Props(1, 2, d, 0, "random"), PyInt(DefaultLifeDays), DefaultTimeIndex,
                 FALSE) : d \in Delays}

----------------------------------------------------------------------------
(* The call in progress: its arguments and what it returned or raised *)

\* what the caller remembers of the call before: whether it was a get_bg at
\* offset 0
Digest(r) == IF r.op = "get_bg" /\ r.off = 0 THEN "get_bg0" ELSE "other"

MkRet(op, sid, exc, s, save, off, trace, values, dates) ==
    [pending |-> TRUE, op |-> op, sid |-> sid, exc |-> exc,
     tick |-> IF s.alive THEN s.time_index ELSE 0,    \* time_index at the call
     hlen |-> IF s.alive THEN Len(s.true_bg_history) ELSE 0,  \* history length at the call
     save |-> save, off |-> off, trace |-> trace, values |-> values, dates |-> dates,
     msg |-> NoMessage,     \* str(e) of the exception raised
     args |-> <<>>,         \* the arguments besides save, off and trace
     prev |-> ret.prev]

RetInit ==
    [pending |-> FALSE, op |-> "none", sid |-> 0, exc |-> "none", tick |-> 0, hlen |-> 0,
     save |-> FALSE, off |-> 0, trace |-> <<>>, values |-> <<>>, dates |-> <<>>,
     msg |-> NoMessage, args |-> <<>>, prev |-> "other"]

\* the caller takes the result (or catches the exception) of the call
Return ==
    /\ ret.pending
    /\ ret' = [RetInit EXCEPT !.prev = Digest(ret)]
    /\ UNCHANGED <<sensors, rng, gen, pcs, script, log>>


----------------------------------------------------------------------------
(* Actions on one sensor *)

\* sensor = iCGMSensor(sensor_properties, sensor_life_days, time_index, sensor_datetime)
Construct(sid, sensor_properties, sensor_life_days, time_index, sensor_datetime) ==
    /\ ~ret.pending
    /\ ~sensors[sid].alive
    /\ LET r == iCGMSensorInit(sensor_properties, sensor_life_days, time_index,
                               sensor_datetime, rng)
       IN  /\ sensors' = [sensors EXCEPT ![sid] = r.s]
           /\ rng' = r.rng
           /\ ret' = [MkRet("init", sid, r.exc, r.s, FALSE, 0, <<>>, <<>>, <<>>)
                        EXCEPT !.msg = r.msg,
                               !.tick = time_index,
                               !.args = <<sensor_properties, sensor_life_days,
                                          sensor_datetime>>]
    /\ UNCHANGED <<gen, pcs>>

\* sensor.update(time)
Update(sid, time) ==
    /\ ~ret.pending
    /\ sensors[sid].alive
    /\ LET s == sensors[sid]
           r == update(s, time)
       IN  /\ sensors' = [sensors EXCEPT ![sid] =
                  IF r.exc = "none"
                  THEN [r.s EXCEPT !.h_updates = @ + 1]
                  ELSE [r.s EXCEPT !.h_failed = Min2(@ + 1, 2)]]
           /\ ret' = [MkRet("update", sid, r.exc, s, FALSE, 0, <<>>, <<>>, <<>>)
                        EXCEPT !.msg = r.msg, !.args = <<time>>]
    /\ UNCHANGED <<rng, gen, pcs>>

\* sensor.get_bg(true_bg_value, save_to_sensor=save, time_index_offset=off)
GetBg(sid, true_bg_value, save_to_sensor, time_index_offset) ==
    /\ ~ret.pending
    /\ sensors[sid].alive
    /\ LET s == sensors[sid]
           Outcome(r) ==
               /\ sensors' = [sensors EXCEPT ![sid] = r.s]
               /\ ret' = [MkRet("get_bg", sid, r.exc, s, save_to_sensor,
                                time_index_offset, <<true_bg_value>>,
                                IF r.exc = "none" THEN <<r.value>> ELSE <<>>, <<>>)
                            EXCEPT !.msg = r.msg]
       IN  Outcome(get_bg(s, true_bg_value, s.true_bg_history, save_to_sensor,
                          time_index_offset))
    /\ UNCHANGED <<rng, gen, pcs>>

\* sensor.get_bg_trace(true_bg_trace, save_to_sensor, time_index_offset)
GetBgTrace(sid, true_bg_trace, save_to_sensor, time_index_offset) ==
    /\ ~ret.pending
    /\ sensors[sid].alive
    /\ LET s == sensors[sid]
           Outcome(r) ==
               /\ sensors' = [sensors EXCEPT ![sid] = r.s]
               /\ ret' = [MkRet("get_bg_trace", sid, r.exc, s, save_to_sensor,
                                time_index_offset, true_bg_trace,
                                IF r.exc = "none" THEN r.values ELSE <<>>, <<>>)
                            EXCEPT !.msg = r.msg]
       IN  Outcome(get_bg_trace(s, true_bg_trace, save_to_sensor, time_index_offset))
    /\ UNCHANGED <<rng, gen, pcs>>

\* sensor.backfill_and_calculate_sensor_data(backfill_true_bg_history)
Backfill(sid, backfill_true_bg_history) ==
    /\ ~ret.pending
    /\ sensors[sid].alive
    /\ LET s == sensors[sid]
           Outcome(r) ==
               /\ sensors' = [sensors EXCEPT ![sid] = r.s]
               /\ ret' = [MkRet("backfill", sid, r.exc, s, TRUE,
                                -Len(backfill_true_bg_history) + 1,
                                backfill_true_bg_history, <<>>, <<>>)
                            EXCEPT !.msg = r.msg]
       IN  Outcome(backfill_and_calculate_sensor_data(s, backfill_true_bg_history))
    /\ UNCHANGED <<rng, gen, pcs>>

\* sensor.get_loop_inputs()
GetLoopInputs(sid, round_raises) ==
    /\ ~ret.pending
    /\ sensors[sid].alive
    /\ LET s == sensors[sid]
           r == get_loop_inputs(s, round_raises)
       IN  /\ sensors' = [sensors EXCEPT ![sid] = r.s]
           /\ ret' = [MkRet("get_loop_inputs", sid, r.exc, s, FALSE, 0, <<>>,
                            r.values, r.dates)
                        EXCEPT !.msg = r.msg]
    /\ UNCHANGED <<rng, gen, pcs>>

\* sensor.append_bg_history(true_bg_value, icgm_value, sensor_datetime), called
\* by the program itself: the entry is appended as given
AppendBgHistory(sid, true_bg_value, icgm_value, sensor_datetime) ==
    /\ ~ret.pending
    /\ sensors[sid].alive
    /\ LET s == sensors[sid]
       IN  /\ sensors' = [sensors EXCEPT ![sid] =
                  append_bg_history(s, true_bg_value, icgm_value, sensor_datetime)]
           /\ ret' = [MkRet("append_bg_history", sid, "none", s, TRUE, 0,
                            <<true_bg_value>>, <<icgm_value>>, <<sensor_datetime>>)
                        EXCEPT !.args = <<true_bg_value, icgm_value, sensor_datetime>>]
    /\ UNCHANGED <<rng, gen, pcs>>

\* sensor.calculate_sensor_bias_properties(), called on a constructed sensor:
\* the process-wide stream is seeded again and the arrays are drawn again
CalculateSensorBiasProperties(sid) ==
    /\ ~ret.pending
    /\ sensors[sid].alive
    /\ LET s == sensors[sid]
           c == DrawStep(s, SeedStep(s, rng))
       IN  /\ sensors' = [sensors EXCEPT ![sid] = c.s]
           /\ rng' = c.rng
           /\ ret' = [MkRet("calculate_sensor_bias_properties", sid, c.exc, s, FALSE, 0,
                            <<>>, <<>>, <<>>)
                        EXCEPT !.msg = c.msg]
    /\ UNCHANGED <<gen, pcs>>

----------------------------------------------------------------------------
(* Spec: the life of one sensor *)

SensorIds == {1, 2}

NoScript == [on |-> FALSE]
NoLog == [i \in SensorIds |-> <<>>]

Init ==
    /\ sensors = [i \in SensorIds |-> Absent]
    /\ rng = Unseeded
    /\ gen = NoGen
    /\ ret = RetInit
    /\ pcs = [i \in SensorIds |-> "idle"]
    /\ script = NoScript
    /\ log = NoLog

\* room left in the committed history for n more entries
Room(sid, n) == Len(sensors[sid].true_bg_history) + n <= MaxHist

DoConstruct ==
    /\ \E c \in ClockConfigs \cup ValueConfigs : Construct(1, c.p, c.life, c.t, c.dt)
    /\ UNCHANGED <<script, log>>

\* the caller passes the wall-clock time of the new tick, or None when the
\* sensor keeps no wall-clock time
DoUpdate ==
    /\ sensors[1].alive
    /\ sensors[1].h_updates < MaxUpd
          \/ sensors[1].time_index = LastTick(sensors[1].sensor_life_days)
    /\ Update(1, IF IsDatetime(sensors[1].sensor_datetime)
                 THEN DT((sensors[1].time_index + 1) * TickMinutes) ELSE NoneDT)
    /\ UNCHANGED <<script, log>>

DoGetBg ==
    /\ \E v \in TrueBGs, save \in BOOLEAN, off \in Offsets :
        /\ save => (off = 0 /\ sensors[1].alive /\ Room(1, 1))
        /\ GetBg(1, v, save, off)
    /\ UNCHANGED <<script, log>>

DoGetBgTrace ==
    /\ \E tr \in Traces, save \in BOOLEAN, off \in Offsets \ {1} :
        /\ save => (off = 0 /\ sensors[1].alive /\ Room(1, Len(tr)))
        /\ ~save => Len(tr) = MaxTrace
        /\ GetBgTrace(1, tr, save, off)
    /\ UNCHANGED <<script, log>>

DoBackfill ==
    /\ \E tr \in Traces :
        /\ sensors[1].alive /\ Room(1, Len(tr))
        /\ Backfill(1, tr)
    /\ UNCHANGED <<script, log>>

DoGetLoopInputs ==
    /\ \E rr \in BOOLEAN : GetLoopInputs(1, rr)
    /\ UNCHANGED <<script, log>>

\* the program appends an entry of its own
DoAppendBgHistory ==
    /\ \E e \in DirectEntries :
        /\ sensors[1].alive /\ Room(1, 1)
        /\ AppendBgHistory(1, e[1], e[2], e[3])
    /\ UNCHANGED <<script, log>>

DoCalculateSensorBiasProperties ==
    /\ CalculateSensorBiasProperties(1)
    /\ UNCHANGED <<script, log>>

Next ==
    \/ DoConstruct
    \/ DoUpdate
    \/ DoGetBg
    \/ DoGetBgTrace
    \/ DoBackfill
    \/ DoGetLoopInputs
    \/ DoAppendBgHistory
    \/ DoCalculateSensorBiasProperties
    \/ Return

Spec == Init /\ [][Next]_vars

----------------------------------------------------------------------------
(* Properties of one sensor, checked under Spec *)

Alive == {i \in SensorIds : sensors[i].alive}

IsPrefix(a, b) == Len(a) <= Len(b) /\ SubSeq(b, 1, Len(a)) = a

\* C1: after any sequence of calls, succeeding or raising, the time_index of a
\* constructed sensor is within [0, sensor_life_days * 288 - 1].
C1_TimeIndexInLife ==
    \A i \in Alive :
        /\ 0 <= sensors[i].time_index
        /\ sensors[i].time_index <= sensors[i].sensor_life_days * TicksPerDay - 1

\* an update was refused at the last tick of a sensor that had been advanced
C1_Witness ==
    /\ sensors[1].alive
    /\ ret.pending /\ ret.op = "update" /\ ret.exc # "none"
    /\ sensors[1].h_updates > 0
    /\ sensors[1].time_index = LastTick(sensors[1].sensor_life_days)

\* C2: the three histories always have the same length, and every call leaves
\* what they held as a prefix of what they hold afterwards.
C2_HistoriesAligned ==
    /\ [](\A i \in Alive :
            /\ Len(sensors[i].true_bg_history) = Len(sensors[i].sensor_bg_history)
            /\ Len(sensors[i].true_bg_history) = Len(sensors[i].datetime_history))
    /\ [][\A i \in Alive :
            /\ sensors'[i].alive
            /\ IsPrefix(sensors[i].true_bg_history, sensors'[i].true_bg_history)
            /\ IsPrefix(sensors[i].sensor_bg_history, sensors'[i].sensor_bg_history)
            /\ IsPrefix(sensors[i].datetime_history, sensors'[i].datetime_history)]_vars

\* a persisting get_bg_trace raised part-way, after it had appended
C2_Witness ==
    /\ sensors[1].alive
    /\ ret.pending /\ ret.op = "get_bg_trace" /\ ret.save /\ ret.exc # "none"
    /\ Len(sensors[1].true_bg_history) > ret.hlen

\* C3: at a tick that is valid and not the last, get_bg at offset 0 followed
\* immediately by update raises nothing.
C3_ReportThenUpdateNeverRaises ==
    \A i \in Alive :
        /\ (/\ ret.pending /\ ret.sid = i /\ ret.op = "get_bg" /\ ret.off = 0
            /\ ret.tick < LastTick(sensors[i].sensor_life_days))
           => ret.exc = "none"
        /\ (/\ ret.pending /\ ret.sid = i /\ ret.op = "update" /\ ret.prev = "get_bg0"
            /\ ret.tick < LastTick(sensors[i].sensor_life_days))
           => ret.exc = "none"

\* C4: a sensor inserted at t0 accepts exactly lifetime - 1 - t0 updates: an
\* update raises exactly when the sensor is at its last tick, and a sensor
\* that has refused an update stays at its last tick whatever is called.
C4_ExpiryIsTerminal ==
    \A i \in Alive :
        LET s == sensors[i]
            last == s.sensor_life_days * TicksPerDay - 1
        IN  /\ s.h_updates <= last - s.h_t0
            /\ (ret.pending /\ ret.sid = i /\ ret.op = "update")
               => (ret.exc # "none" <=> ret.tick = last)
            /\ s.h_failed > 0 => (s.time_index = last /\ s.h_updates = last - s.h_t0)

\* an expired sensor refused a second update after other calls had been made
C4_Witness ==
    /\ sensors[1].alive
    /\ sensors[1].h_failed = 2
    /\ sensors[1].h_updates > 0
    /\ Len(sensors[1].true_bg_history) > 0
    /\ ret.pending /\ ret.op = "update" /\ ret.exc # "none" /\ ret.prev = "get_bg0"

\* the value the claim expects at 0-based position k of a sequence of true
\* values fed from tick0 on: nan before the delay has passed, then the value
\* computed from the true value d/5 positions earlier
C5_Expected(s, true_values, k, tick0) ==
    LET di == s.delay \div TickMinutes
    IN  IF k < di THEN NaN
        ELSE IcgmValue(s, Num(true_values[k - di + 1]), tick0 + k)

\* C5: with a delay of d minutes (d > 0, a multiple of 5), get_bg_trace computes
\* position k >= d/5 from the true value at position k - d/5 and gives nan
\* before; so do get_bg calls that persist, one after the other.
C5_DelayCorrect ==
    \A i \in Alive :
        LET s == sensors[i]
        IN  (ret.pending /\ ret.sid = i /\ ret.exc = "none" /\ s.delay > 0) =>
              /\ ret.op = "get_bg_trace" =>
                    /\ Len(ret.values) = Len(ret.trace)
                    /\ \A k \in 0..(Len(ret.trace) - 1) :
                          ret.values[k + 1] = C5_Expected(s, ret.trace, k, ret.tick + ret.off)
              /\ ret.op = "get_bg" =>
                    ret.values[1] =
                        C5_Expected(s, SubSeq(s.true_bg_history, 1, ret.hlen) \o ret.trace,
                                    ret.hlen, ret.tick + ret.off - ret.hlen)

\* a 10-minute sensor computed the third value of a trace from the first one,
\* which differs from the third
C5_Witness ==
    /\ sensors[1].alive /\ sensors[1].delay = 10
    /\ ret.pending /\ ret.op = "get_bg_trace" /\ ret.exc = "none"
    /\ Len(ret.trace) = 3 /\ ret.trace[1] # ret.trace[3] /\ ret.trace[1] # ret.trace[2]
    /\ IsNaN(ret.values[1]) /\ IsNaN(ret.values[2]) /\ ~IsNaN(ret.values[3])

\* C6: get_loop_inputs returns the timestamp history and, for every committed
\* entry, the committed value rounded and clamped to [40, 400]; it changes
\* nothing.
C6_LoopInputsClamped ==
    \A i \in Alive :
        LET s == sensors[i]
        IN  (ret.pending /\ ret.sid = i /\ ret.op = "get_loop_inputs") =>
              /\ ret.exc = "none"
              /\ ret.dates = s.datetime_history
              /\ Len(ret.values) = Len(s.sensor_bg_history)
              /\ \A k \in 1..Len(ret.values) :
                    /\ ret.values[k] \in LoopMin..LoopMax
                    /\ ~IsNaN(s.sensor_bg_history[k]) =>
                          ret.values[k] = Clamp(RoundHalfEven(s.sensor_bg_history[k]))

\* C12: a constructor call whose sensor_life_days is not a positive integer,
\* whose time_index is outside [0, sensor_life_days * 288 - 1] or whose
\* bias_drift_type is "linear" raises and leaves no sensor; and no invalid
\* value is accepted: a constructor call that returns was given one of the
\* drift types "random" and "none", has kept the lifetime, the tick and the
\* drift type it was given, and has its drift array.
C12_ConstructionFailsFast ==
    (ret.pending /\ ret.op = "init") =>
        LET sensor_properties == ret.args[1]
            sensor_life_days == ret.args[2]
            time_index == ret.tick
            s == sensors[ret.sid]
        IN  /\ (\/ sensor_life_days.type # "int"
                \/ sensor_life_days.n <= 0
                \/ time_index < 0
                \/ time_index * sensor_life_days.d
                       > sensor_life_days.n * TicksPerDay - sensor_life_days.d
                \/ (sensor_properties.given /\ sensor_properties.bias_drift_type = "linear"))
               => (ret.exc # "none" /\ ~s.alive)
            /\ ret.exc = "none" =>
                  /\ s.alive
                  /\ sensor_properties.bias_drift_type \in {"random", "none"}
                  /\ s.sensor_life_days = sensor_life_days.n
                  /\ s.time_index = time_index
                  /\ s.bias_drift_type = sensor_properties.bias_drift_type
                  /\ s.drift_multiplier.kind # "unset"

\* the fields of the object, without the history variables of the model
Fields(s) == [s EXCEPT !.h_updates = 0, !.h_failed = 0]

\* the step is a call of `op` on sensor i
Calls(i, op) == ~ret.pending /\ ret'.pending /\ ret'.sid = i /\ ret'.op = op

\* C13: an update that returns adds one to time_index, sets sensor_datetime to
\* the time given and changes no other field; an update that raises, and every
\* step that is not an update, leaves time_index and sensor_datetime as they
\* were; time_index never decreases.
C13_OnlyUpdateMovesClock ==
    [][\A i \in Alive :
          LET s == sensors[i]
              s2 == sensors'[i]
          IN  /\ s2.alive
              /\ (Calls(i, "update") /\ ret'.exc = "none") =>
                    /\ s2.time_index = s.time_index + 1
                    /\ s2.sensor_datetime = ret'.args[1]
                    /\ Fields(s2) = Fields([s EXCEPT !.time_index = s.time_index + 1,
                                                    !.sensor_datetime = ret'.args[1]])
              /\ ~(Calls(i, "update") /\ ret'.exc = "none") =>
                    /\ s2.time_index = s.time_index
                    /\ s2.sensor_datetime = s.sensor_datetime
              /\ s2.time_index >= s.time_index]_vars

\* an update returned on a sensor that holds committed values and a
\* wall-clock time, and moved both the tick and the time
C13_Witness ==
    /\ sensors[1].alive
    /\ ret.pending /\ ret.op = "update" /\ ret.exc = "none"
    /\ IsDatetime(sensors[1].sensor_datetime)
    /\ sensors[1].sensor_datetime = ret.args[1]
    /\ sensors[1].time_index = ret.tick + 1
    /\ Len(sensors[1].sensor_bg_history) > 0

\* a backfill of sensor i has returned
Backfilled(i) == ret.pending /\ ret.sid = i /\ ret.op = "backfill" /\ ret.exc = "none"

\* C14, as claimed: a backfill of L values that returns has appended L entries
\* to each history, and every one of them is for a tick strictly before the
\* current time_index: on a sensor that keeps wall-clock time, each committed
\* timestamp is earlier than sensor_datetime.
C14_BackfillStrictlyBefore ==
    \A i \in Alive :
        LET s == sensors[i]
            L == Len(ret.trace)
        IN  Backfilled(i) =>
              /\ Len(s.true_bg_history) = ret.hlen + L
              /\ Len(s.sensor_bg_history) = ret.hlen + L
              /\ Len(s.datetime_history) = ret.hlen + L
              /\ \A k \in 1..L :
                    IsDatetime(s.datetime_history[ret.hlen + k]) =>
                        s.datetime_history[ret.hlen + k].min < s.sensor_datetime.min

\* C14, amended: a backfill of L values at time_index T that returns has
\* appended L entries to each history, entry k (1..L) being the true value k,
\* the sensor value computed for tick T - L + k from the window so far, and
\* the timestamp of that tick: every entry is for a tick at or before T, and
\* the last one for T itself.
C14_BackfillUpToCurrentTick ==
    \A i \in Alive :
        LET s == sensors[i]
            L == Len(ret.trace)
            T == s.time_index
        IN  Backfilled(i) =>
              /\ Len(s.true_bg_history) = ret.hlen + L
              /\ Len(s.sensor_bg_history) = ret.hlen + L
              /\ Len(s.datetime_history) = ret.hlen + L
              /\ \A k \in 1..L :
                    /\ T - L + k <= T
                    /\ s.true_bg_history[ret.hlen + k] = ret.trace[k]
                    /\ s.sensor_bg_history[ret.hlen + k] =
                          IcgmValue(s, DelayedTrueBg(s.delay, ret.trace[k],
                                                     SubSeq(ret.trace, 1, k - 1)),
                                    T - L + k)
                    /\ s.datetime_history[ret.hlen + k] =
                          IF IsDatetime(s.sensor_datetime)
                          THEN DT(s.sensor_datetime.min - (L - k) * TickMinutes)
                          ELSE NoneDT

\* a window of two values was backfilled into a sensor that keeps wall-clock
\* time; the last entry carries the sensor's current time and a number
C14_Witness ==
    /\ sensors[1].alive /\ Backfilled(1)
    /\ Len(ret.trace) = 2 /\ ret.trace[1] # ret.trace[2]
    /\ Len(sensors[1].sensor_bg_history) = ret.hlen + 2
    /\ IsDatetime(sensors[1].sensor_datetime)
    /\ sensors[1].datetime_history[ret.hlen + 2] = sensors[1].sensor_datetime
    /\ ~IsNaN(sensors[1].sensor_bg_history[ret.hlen + 2])

\* C15: a backfill of a window of L >= 1 values at time_index T raises exactly
\* when T - L + 1 < 0, and a backfill that raises leaves the three histories,
\* time_index and sensor_datetime as they were.
C15_BackfillAllOrNothing ==
    [][\A i \in Alive :
          LET s == sensors[i]
              s2 == sensors'[i]
              L == Len(ret'.trace)
          IN  (Calls(i, "backfill") /\ L >= 1) =>
                /\ ret'.exc # "none" <=> s.time_index - L + 1 < 0
                /\ ret'.exc # "none" =>
                      /\ s2.true_bg_history = s.true_bg_history
                      /\ s2.sensor_bg_history = s.sensor_bg_history
                      /\ s2.datetime_history = s.datetime_history
                      /\ s2.time_index = s.time_index
                      /\ s2.sensor_datetime = s.sensor_datetime]_vars

\* C16: a get_bg or get_bg_trace call with save_to_sensor=False, whatever its
\* input and offset and whether it returns or raises, leaves the three
\* histories, time_index, sensor_datetime and every other field of the sensor
\* as they were.
C16_NoSaveChangesNothing ==
    [][\A i \in Alive :
          ((Calls(i, "get_bg") \/ Calls(i, "get_bg_trace")) /\ ~ret'.save) =>
              /\ sensors'[i].true_bg_history = sensors[i].true_bg_history
              /\ sensors'[i].sensor_bg_history = sensors[i].sensor_bg_history
              /\ sensors'[i].datetime_history = sensors[i].datetime_history
              /\ sensors'[i].time_index = sensors[i].time_index
              /\ sensors'[i].sensor_datetime = sensors[i].sensor_datetime
              /\ sensors'[i] = sensors[i]]_vars

\* a get_bg_trace that does not save returned three values, computed from
\* one tick back, on a sensor that holds committed entries
C16_Witness ==
    /\ sensors[1].alive
    /\ ret.pending /\ ret.op = "get_bg_trace" /\ ~ret.save /\ ret.exc = "none"
    /\ ret.off = -1 /\ Len(ret.values) = 3
    /\ Len(sensors[1].true_bg_history) = ret.hlen /\ ret.hlen > 0

\* the entries a saving get_bg_trace(true_bg_trace, time_index_offset) on
\* sensor s appends for its first j inputs
FirstEntries(s, true_bg_trace, time_index_offset, j) ==
    [true |-> SubSeq(true_bg_trace, 1, j),
     sensor |-> [k \in 1..j |->
                    IcgmValue(s, DelayedTrueBg(s.delay, true_bg_trace[k],
                                               SubSeq(true_bg_trace, 1, k - 1)),
                              s.time_index + time_index_offset + k - 1)],
     dates |-> [k \in 1..j |->
                    IF IsDatetime(s.sensor_datetime)
                    THEN DT(s.sensor_datetime.min + (time_index_offset + k - 1) * TickMinutes)
                    ELSE NoneDT]]

\* sensor s2 is sensor s with entries e appended to the three histories and
\* nothing else changed
AppendedOnly(s, s2, e) ==
    s2 = [s EXCEPT !.true_bg_history = @ \o e.true,
                   !.sensor_bg_history = @ \o e.sensor,
                   !.datetime_history = @ \o e.dates]

\* C21: a get_bg call that raises appends nothing.  A get_bg_trace call with
\* save_to_sensor=True that raises has appended the entries of the inputs
\* before the one that raised, in input order, and nothing else; when it
\* raises because a tick is outside the lifetime, that input is the first one
\* (0-based position j) whose tick time_index + offset + j is outside, and
\* exactly j entries were appended.
C21_RaisingCallsAppendPrefix ==
    [][\A i \in Alive :
          LET s == sensors[i]
              s2 == sensors'[i]
              L == Len(ret'.trace)
              outside == {j \in 0..(L - 1) :
                            ~validate_time_index(s.sensor_life_days,
                                                 s.time_index + ret'.off + j)}
          IN  /\ (Calls(i, "get_bg") /\ ret'.exc # "none") => s2 = s
              /\ (Calls(i, "get_bg_trace") /\ ret'.save /\ ret'.exc # "none") =>
                    \E j \in 0..(L - 1) :
                        AppendedOnly(s, s2, FirstEntries(s, ret'.trace, ret'.off, j))
              /\ (Calls(i, "get_bg_trace") /\ ret'.save /\ ret'.exc = "Exception") =>
                    /\ outside # {}
                    /\ \A j \in outside :
                          (\A k \in outside : j <= k) =>
                              AppendedOnly(s, s2, FirstEntries(s, ret'.trace, ret'.off, j))]_vars

\* a saving get_bg_trace of two values at the last tick of the lifetime
\* raised on the second value and kept the entry of the first
C21_Witness ==
    /\ sensors[1].alive
    /\ ret.pending /\ ret.op = "get_bg_trace" /\ ret.save /\ ret.exc = "Exception"
    /\ Len(ret.trace) = 2 /\ ret.off = 0
    /\ ret.tick = LastTick(sensors[1].sensor_life_days)
    /\ Len(sensors[1].true_bg_history) = ret.hlen + 1
    /\ sensors[1].true_bg_history[ret.hlen + 1] = ret.trace[1]
    /\ Len(sensors[1].sensor_bg_history) = ret.hlen + 1
    /\ Len(sensors[1].datetime_history) = ret.hlen + 1

\* C17: the noise array and the drift-multiplier array of a constructed sensor
\* each have sensor_life_days * 288 elements, so that the last tick of the
\* lifetime indexes an element of both; and no step changes either array.
C17_ArraysCoverLifetime ==
    /\ [](\A i \in Alive :
            LET s == sensors[i]
            IN  /\ s.noise.size = s.sensor_life_days * TicksPerDay
                /\ s.drift_multiplier.size = s.sensor_life_days * TicksPerDay
                /\ ArrayIndexOk(s.noise, LastTick(s.sensor_life_days))
                /\ ArrayIndexOk(s.drift_multiplier, LastTick(s.sensor_life_days)))
    /\ [][\A i \in Alive :
            /\ sensors'[i].noise = sensors[i].noise
            /\ sensors'[i].drift_multiplier = sensors[i].drift_multiplier]_vars

\* two numbers are equal as rationals
SameNumber(a, b) == ~IsNaN(a) /\ ~IsNaN(b) /\ a.n * b.d = b.n * a.d

\* C18: with drift type "random" the drift multiplier at a tick is the
\* sinusoid value of that tick mapped linearly from [-1, 1] onto
\* [bias_drift_range_start, bias_drift_range_end]; with drift type "none" it
\* is 1 at every tick.
C18_DriftMapsOntoRange ==
    \A i \in Alive :
        LET s == sensors[i]
        IN  \A tick \in 0..MaxTrace :
              /\ s.bias_drift_type = "random" =>
                    SameNumber(DriftAt(s, tick),
                               Interp(SinApprox(s.bias_drift_oscillations, s.phi_drift,
                                                tick, ArraySize),
                                      Num(-1), Num(1),
                                      Num(s.bias_drift_range_start),
                                      Num(s.bias_drift_range_end)))
              /\ s.bias_drift_type = "none" => DriftAt(s, tick) = Num(1)

\* the ticks the call in `ret` refers to, and the lifetime they are checked
\* against
ReferencedTicks ==
    CASE ret.op = "init" -> {ret.tick}
      [] ret.op = "update" -> {ret.tick + 1}
      [] ret.op = "get_bg" -> {ret.tick + ret.off}
      [] ret.op = "get_bg_trace" -> {ret.tick + ret.off + k : k \in 0..(Len(ret.trace) - 1)}
      [] ret.op = "backfill" ->
            {ret.tick + ret.off} \cup {ret.tick + ret.off + k : k \in 0..(Len(ret.trace) - 1)}
      [] OTHER -> {}
ReferencedLife ==
    IF ret.op = "init" THEN ret.args[2].n ELSE sensors[ret.sid].sensor_life_days

\* the message says that the sensor has not started / has expired
NamesNotStarted(msg) == \E k \in 1..Len(msg) : msg[k] = BackfillMessage[1]
NamesExpired(msg) == \E k \in 1..Len(msg) : msg[k] = ExpiredMessage[1]

\* C19: a call that refers to a tick outside [0, sensor_life_days * 288 - 1]
\* raises, and the message of the exception names the cause: that the sensor
\* has not started when the tick is below 0, that it has expired when the
\* tick is above the last one.
C19_MessageNamesCause ==
    (/\ ret.pending
     /\ ret.op \in {"init", "update", "get_bg", "get_bg_trace", "backfill"}
     /\ ret.op = "init" =>
           (ret.args[1].given /\ ret.args[2].type = "int" /\ ret.args[2].n > 0)) =>
        /\ (\E tick \in ReferencedTicks : tick < 0) =>
              /\ ret.exc # "none"
              /\ NamesNotStarted(ret.msg) /\ ~NamesExpired(ret.msg)
        /\ (\E tick \in ReferencedTicks : tick > LastTick(ReferencedLife)) =>
              /\ ret.exc # "none"
              /\ NamesExpired(ret.msg) /\ ~NamesNotStarted(ret.msg)

----------------------------------------------------------------------------
(* SpecB: one window of true values, backfilled into sensor 1 (inserted at   *)
(* tick T) and fed value by value, with an update between two values, into  *)
(* sensor 2 (same properties, inserted at tick T - L + 1)                    *)

Windows == SeqsUpTo(TrueBGs, MaxWin) \ {<<>>}

\* property rows and (lifetime, T) pairs of the two sensors
TwinRows == {Props(b[1], b[2], d, 0, ty) : b \in Biases, d \in Delays, ty \in DriftTypes}
TwinTicks == {<<DefaultLifeDays, 2>>, <<DefaultLifeDays, ArraySize - 1>>,
              <<11, ArraySize + 1>>, <<1, TicksPerDay - 1>>}

InitB ==
    \E p \in TwinRows, lt \in TwinTicks, w \in Windows :
        LET a == iCGMSensorInit(p, PyInt(lt[1]), lt[2], NoneDT, Unseeded)
            b == iCGMSensorInit(p, PyInt(lt[1]), lt[2] - Len(w) + 1, NoneDT, a.rng)
        IN  /\ a.exc = "none" /\ b.exc = "none"
            /\ sensors = [i \in SensorIds |-> IF i = 1 THEN a.s ELSE b.s]
            /\ rng = b.rng
            /\ gen = NoGen
            /\ ret = RetInit
            /\ pcs = [i \in SensorIds |-> "idle"]
            /\ script = [on |-> TRUE, win |-> w, filled |-> FALSE, j |-> 1,
                         need_update |-> FALSE]
            /\ log = NoLog

\* sensor 1: backfill_and_calculate_sensor_data(window)
BackfillWindow ==
    /\ ~script.filled
    /\ Backfill(1, script.win)
    /\ script' = [script EXCEPT !.filled = TRUE]
    /\ UNCHANGED log

\* sensor 2: get_bg(window[j], save_to_sensor=True)
FeedValue ==
    /\ script.j <= Len(script.win) /\ ~script.need_update
    /\ GetBg(2, script.win[script.j], TRUE, 0)
    /\ script' = [script EXCEPT !.j = @ + 1, !.need_update = (script.j < Len(script.win))]
    /\ UNCHANGED log

\* sensor 2: update(None) between two values
FeedUpdate ==
    /\ script.need_update
    /\ Update(2, NoneDT)
    /\ script' = [script EXCEPT !.need_update = FALSE]
    /\ UNCHANGED log

NextB ==
    \/ BackfillWindow
    \/ FeedValue
    \/ FeedUpdate
    \/ Return

SpecB == InitB /\ [][NextB]_vars

\* both callers are through with the window
WindowDone ==
    script.on /\ script.filled /\ script.j > Len(script.win) /\ ~script.need_update

\* C7: once the window has been backfilled into sensor 1 and fed one value at
\* a time into sensor 2, both sensors hold the same true_bg_history and the
\* same sensor_bg_history.
C7_BackfillEquivalence ==
    WindowDone =>
        /\ sensors[1].true_bg_history = sensors[2].true_bg_history
        /\ sensors[1].sensor_bg_history = sensors[2].sensor_bg_history

\* a window of three values went into both sensors, its last committed value
\* is a number, and the sensors agree
C7_Witness ==
    /\ WindowDone
    /\ Len(script.win) = 3
    /\ Len(sensors[1].sensor_bg_history) = 3
    /\ Len(sensors[2].sensor_bg_history) = 3
    /\ ~IsNaN(sensors[1].sensor_bg_history[3])
    /\ sensors[1].delay = 10
    /\ sensors[1].sensor_bg_history = sensors[2].sensor_bg_history

----------------------------------------------------------------------------
(* Actions on the generator *)

\* the call record of a generator call: the exception raised, its str(e), and
\* the number of sensors asked for
GenRet(op, exc, msg, n) ==
    [RetInit EXCEPT !.pending = TRUE, !.op = op, !.exc = exc, !.msg = msg, !.off = n,
                    !.prev = ret.prev]

\* gen = iCGMSensorGenerator(...)
GenConstruct(use_g6_accuracy_in_loss, bias_drift_type, random_seed, true_bg_trace) ==
    /\ ~ret.pending
    /\ LET r == iCGMSensorGeneratorInit(use_g6_accuracy_in_loss, bias_drift_type,
                                        random_seed, true_bg_trace)
       IN  /\ gen' = r.g
           /\ rng' = r.rng
    /\ ret' = GenRet("gen_init", "none", NoMessage, 0)
    /\ UNCHANGED <<sensors, pcs>>

\* gen.fit(true_bg_trace)
Fit(true_bg_trace) ==
    /\ ~ret.pending
    /\ gen.alive
    /\ LET r == fit(gen, true_bg_trace)
       IN  /\ gen' = r.g
           /\ ret' = GenRet("fit", r.exc, r.msg, 0)
    /\ UNCHANGED <<sensors, rng, pcs>>

\* gen.generate_sensors(n_sensors)
GenerateSensors(n_sensors) ==
    /\ ~ret.pending
    /\ gen.alive
    /\ LET r == generate_sensors(gen, n_sensors, rng)
       IN  /\ gen' = r.g
           /\ rng' = r.rng
           /\ ret' = GenRet("generate_sensors", r.exc, r.msg, n_sensors)
    /\ UNCHANGED <<sensors, pcs>>

----------------------------------------------------------------------------
(* SpecG: one generator, constructed, fitted and asked for sensors *)

GenTraces == {None, Some(<<>>), Some(<<100, 110>>), Some(<<120>>)}
GenDriftTypes == {"random", "none", "linear"}
GenSeeds == {0, 1}

DoGenConstruct ==
    /\ ~gen.alive
    /\ \E g6 \in BOOLEAN, ty \in GenDriftTypes, sd \in GenSeeds :
          GenConstruct(g6, ty, sd, None)
    /\ UNCHANGED <<script, log>>

DoFit ==
    /\ \E tr \in GenTraces : Fit(tr)
    /\ UNCHANGED <<script, log>>

DoGenerateSensors ==
    /\ \E n \in 0..MaxGen : GenerateSensors(n)
    /\ UNCHANGED <<script, log>>

NextG ==
    \/ DoGenConstruct
    \/ DoFit
    \/ DoGenerateSensors
    \/ Return

SpecG == Init /\ [][NextG]_vars

\* C10: generate_sensors on a generator on which no fit has succeeded raises,
\* constructs no sensor and leaves the generator as it was.
C10_GenerateBeforeFit ==
    [][(/\ ~ret.pending /\ ret'.pending /\ ret'.op = "generate_sensors"
        /\ ~gen.h_fitted)
       => (/\ ret'.exc # "none"
           /\ gen' = gen
           /\ ~IsSet(gen'.sensors)
           /\ gen'.icgm_traces = None /\ gen'.individual_sensor_properties = None
           /\ rng' = rng)]_vars

\* generate_sensors raised on a generator whose only fit had failed after it
\* had stored its trace
C10_Witness ==
    /\ gen.alive /\ ~gen.h_fitted
    /\ IsSet(gen.true_bg_trace)
    /\ ret.pending /\ ret.op = "generate_sensors" /\ ret.exc = "AttributeError"
    /\ ret.off = MaxGen

\* C20: a fit call that raises leaves the generator as it was; so the stored
\* distribution parameters are always those fitted on the stored trace.
C20_FailedFitChangesNothing ==
    /\ [][(~ret.pending /\ ret'.pending /\ ret'.op = "fit" /\ ret'.exc # "none")
            => gen' = gen]_vars
    /\ []((gen.alive /\ IsSet(gen.dist_params)) =>
            /\ IsSet(gen.true_bg_trace)
            /\ gen.batch_sensor_brute_search_results =
                  Some(BruteResult(gen, gen.true_bg_trace[1])))

\* the named fields of a row of the property table
PropertyFields ==
    {"initial_bias", "phi_drift", "bias_drift_range_start", "bias_drift_range_end",
     "bias_drift_oscillations", "bias_norm_factor", "noise_coefficient", "delay",
     "random_seed", "bias_drift_type"}

\* C11: when generate_sensors(n) has returned on a fitted generator, the
\* generator holds n sensors and n property rows, sensor i has in each of the
\* ten property fields the value of row i, and every sensor is at time_index 0
\* with three empty histories.
C11_SensorsCarryRows ==
    (gen.alive /\ ret.pending /\ ret.op = "generate_sensors" /\ ret.exc = "none") =>
        /\ IsSet(gen.sensors) /\ IsSet(gen.individual_sensor_properties)
        /\ gen.n_sensors = Some(ret.off)
        /\ Len(gen.sensors[1]) = ret.off
        /\ Len(gen.individual_sensor_properties[1]) = ret.off
        /\ \A i \in 1..ret.off :
              LET s == gen.sensors[1][i]
                  row == gen.individual_sensor_properties[1][i]
              IN  /\ s.alive
                  /\ \A f \in PropertyFields : s[f] = row[f]
                  /\ s.time_index = 0
                  /\ s.true_bg_history = <<>>
                  /\ s.sensor_bg_history = <<>>
                  /\ s.datetime_history = <<>>

\* two sensors were generated from two rows that differ
C11_Witness ==
    /\ gen.alive /\ gen.h_fitted
    /\ ret.pending /\ ret.op = "generate_sensors" /\ ret.exc = "none" /\ ret.off = 2
    /\ Len(gen.sensors[1]) = 2
    /\ gen.individual_sensor_properties[1][1] # gen.individual_sensor_properties[1][2]
    /\ gen.sensors[1][2].random_seed # gen.sensors[1][1].random_seed

----------------------------------------------------------------------------
(* SpecR: two sensors and a generator constructed one after the other, in    *)
(* any order, and the same calls made on both sensors                        *)

ReproRows == {Props(1, 2, DelayG6, sd, ty) : sd \in GenSeeds, ty \in DriftTypes}
ReproTraces == {<<10, 101>>}

\* what the log keeps of a call
Logged(r) == [op |-> r.op, trace |-> r.trace, save |-> r.save, off |-> r.off,
              exc |-> r.exc, values |-> r.values]

ConstructR ==
    /\ \E i \in SensorIds, p \in ReproRows :
          Construct(i, p, PyInt(DefaultLifeDays), DefaultTimeIndex, NoneDT)
    /\ UNCHANGED <<script, log>>

GenConstructR ==
    /\ ~gen.alive
    /\ \E sd \in GenSeeds : GenConstruct(FALSE, "random", sd, None)
    /\ UNCHANGED <<script, log>>

GetBgR ==
    \E i \in SensorIds, v \in TrueBGs :
        /\ Len(log[i]) < MaxLog
        /\ GetBg(i, v, TRUE, 0)
        /\ log' = [log EXCEPT ![i] = Append(@, Logged(ret'))]
        /\ UNCHANGED script

GetBgTraceR ==
    \E i \in SensorIds, tr \in ReproTraces :
        /\ Len(log[i]) < MaxLog
        /\ GetBgTrace(i, tr, FALSE, 0)
        /\ log' = [log EXCEPT ![i] = Append(@, Logged(ret'))]
        /\ UNCHANGED script

\* calculate_sensor_bias_properties() called again on a constructed sensor
CalculateR ==
    /\ \E i \in SensorIds : CalculateSensorBiasProperties(i)
    /\ UNCHANGED <<script, log>>

NextR ==
    \/ ConstructR
    \/ GenConstructR
    \/ GetBgR
    \/ GetBgTraceR
    \/ CalculateR
    \/ Return

SpecR == Init /\ [][NextR]_vars

\* the ten property fields of a sensor
PropsOf(s) ==
    <<s.initial_bias, s.phi_drift, s.bias_drift_range_start, s.bias_drift_range_end,
      s.bias_drift_oscillations, s.bias_norm_factor, s.noise_coefficient, s.delay,
      s.random_seed, s.bias_drift_type>>

\* the arguments of the first k calls logged
InputsOf(l, k) ==
    [n \in 1..k |-> <<l[n].op, l[n].trace, l[n].save, l[n].off>>]

\* the elements of a sensor's two arrays, tick by tick over the ticks the
\* calls of the model read
ArrayValues(s) ==
    [t \in 0..MaxTrace |-> <<NoiseAt(s.noise, t), DriftAt(s, t)>>]

\* C8: two sensors constructed from identical properties (random_seed
\* included), whatever was constructed before or between them, hold the same
\* noise and drift arrays and answer the same calls with the same values.
C8_Reproducible ==
    \A i, j \in Alive :
        (i # j /\ PropsOf(sensors[i]) = PropsOf(sensors[j])) =>
            /\ sensors[i].noise = sensors[j].noise
            /\ sensors[i].drift_multiplier = sensors[j].drift_multiplier
            /\ ArrayValues(sensors[i]) = ArrayValues(sensors[j])
            /\ \A k \in 1..Min2(Len(log[i]), Len(log[j])) :
                  InputsOf(log[i], k) = InputsOf(log[j], k) => log[i][k] = log[j][k]

\* two sensors with the same properties, a generator seeded differently
\* constructed as well, and the same two calls answered on both sensors
C8_Witness ==
    /\ sensors[1].alive /\ sensors[2].alive
    /\ PropsOf(sensors[1]) = PropsOf(sensors[2])
    /\ gen.alive /\ gen.random_seed # sensors[1].random_seed
    /\ Len(log[1]) = 2 /\ log[1] = log[2]
    /\ log[1][1].op = "get_bg" /\ log[1][2].op = "get_bg"
    /\ ~IsNaN(log[1][2].values[1])

----------------------------------------------------------------------------
(* SpecC: two threads construct a sensor each, and a third constructs a      *)
(* generator; a thread may be switched out between any two statements, so   *)
(* np.random.seed and np.random.normal of one construction are two steps     *)

ConcRows == {Props(1, 2, DelayDefault, sd, "random") : sd \in GenSeeds}

\* thread i runs __init__ up to the call of calculate_sensor_bias_properties
BeginConstruct(i, sensor_properties) ==
    /\ pcs[i] = "idle"
    /\ LET f == InitFields(sensor_properties, PyInt(DefaultLifeDays), DefaultTimeIndex, NoneDT)
       IN  /\ f.exc = "none"
           /\ sensors' = [sensors EXCEPT ![i] = [f.s EXCEPT !.alive = FALSE]]
    /\ pcs' = [pcs EXCEPT ![i] = "seed"]
    /\ UNCHANGED <<rng, gen, ret, script, log>>

\* thread i calls calculate_sensor_bias_properties() on the sensor it has
\* constructed
BeginCalculate(i) ==
    /\ pcs[i] = "done"
    /\ pcs' = [pcs EXCEPT ![i] = "seed"]
    /\ UNCHANGED <<sensors, rng, gen, ret, script, log>>

\* thread i runs np.random.seed(seed=self.random_seed)
SeedRandom(i) ==
    /\ pcs[i] = "seed"
    /\ rng' = SeedStep(sensors[i], rng)
    /\ pcs' = [pcs EXCEPT ![i] = "draw"]
    /\ UNCHANGED <<sensors, gen, ret, script, log>>

\* thread i runs the rest of calculate_sensor_bias_properties and returns
DrawArrays(i) ==
    /\ pcs[i] = "draw"
    /\ LET c == DrawStep(sensors[i], rng)
       IN  /\ c.exc = "none"
           /\ sensors' = [sensors EXCEPT ![i] = [c.s EXCEPT !.alive = TRUE]]
           /\ rng' = c.rng
    /\ pcs' = [pcs EXCEPT ![i] = "done"]
    /\ UNCHANGED <<gen, ret, script, log>>

\* the third thread constructs a generator, whose __init__ seeds the stream
GenConstructC ==
    /\ ~gen.alive
    /\ \E sd \in GenSeeds : GenConstruct(FALSE, "random", sd, None)
    /\ UNCHANGED <<script, log>>

NextC ==
    \/ \E i \in SensorIds, p \in ConcRows : BeginConstruct(i, p)
    \/ \E i \in SensorIds : BeginCalculate(i)
    \/ \E i \in SensorIds : SeedRandom(i)
    \/ \E i \in SensorIds : DrawArrays(i)
    \/ GenConstructC
    \/ Return

SpecC == Init /\ [][NextC]_vars

\* C9: however the steps of concurrent constructions interleave, the noise
\* array of a constructed sensor is the one its own random_seed determines.
C9_NoiseFromOwnSeed ==
    \A i \in SensorIds :
        pcs[i] = "done" =>
            sensors[i].noise =
                NormalArray(Seeded(sensors[i].random_seed),
                            NoiseScale(sensors[i].noise_coefficient), ArraySize)

====
